---- MODULE Spec2Model ----
(***************************************************************************)
(* Model of Envoy's stats symbol table (source/common/stats/               *)
(* symbol_table_impl.{h,cc}): the token codec (SymbolEncoding), the       *)
(* interner (SymbolTable), the owning containers (StatNameStorage,         *)
(* StatNameTempStorage), the views (StatName) and the StatNameJoiner.      *)
(*                                                                         *)
(* Strings are sequences of one-character strings; byte arrays are         *)
(* sequences of numbers in 0..255.  Every SymbolTable method touches the   *)
(* maps inside a single critical section of lock_, so one API call is one  *)
(* step of Spec.  ThreadSpec splits the calls at the lock and at every     *)
(* iteration of their loops and interleaves the calls of several threads.  *)
(***************************************************************************)
EXTENDS Integers, Sequences, FiniteSets, TLC

VARIABLES
    encode_map_,        \* token -> [symbol_, ref_count_]      (EncodeMap)
    decode_map_,        \* symbol -> token                     (DecodeMap)
    pool_,              \* free pool of symbols, top of the stack is the last element
    next_symbol_,       \* symbol staged for the next insertion
    monotonic_counter_, \* source of fresh symbols
    storage,            \* the caller's StatNameStorage objects: slot -> [bytes, name]
    joiner,             \* the caller's StatNameJoiner: [bytes, inputs], NoJoiner when there is none
    lock_acquired,      \* whether the last call built a Thread::LockGuard on lock_
    fault,              \* "none", the fatal check that terminated the process, or
                        \* "destroyed" once the table is gone
    symbol_array,       \* a uint8_t array of the caller holding one StatName (size_and_data_)
    decoded,            \* the SymbolVec the last decodeSymbols on symbol_array returned
    lock_,              \* the thread holding the table's mutex, 0 when it is free
    threads             \* thread -> the call of a SymbolTable method it is in: its
                        \* position, its locals and the number of calls it has left

tablevars == <<encode_map_, decode_map_, pool_, next_symbol_, monotonic_counter_>>
rawvars == <<symbol_array, decoded>>
threadvars == <<lock_, threads>>
vars == <<encode_map_, decode_map_, pool_, next_symbol_, monotonic_counter_,
          storage, joiner, lock_acquired, fault, symbol_array, decoded,
          lock_, threads>>

----------------------------------------------------------------------------
(* Bounds of the model. *)

\* number of StatNameStorage objects the caller can hold at once
MaxStorage == 2
\* number of throw-away single-token names encoded and released by Churn
ChurnCount == 128
\* longest vector handed to the vector form of StatNameJoiner
MaxJoinVec == 1
\* longest payload, in bytes, the caller asks a StatNameJoiner to build
MaxJoinBytes == 4
\* most occurrences of one token in a name handed to encode
MaxRepeat == 5
\* longest payload the caller writes into its own array byte by byte
MaxRawBytes == 3
\* most symbols the caller packs into its own array with addSymbol
MaxRawSymbols == 2
\* longest payload of its own array the caller hands to decodeSymbols or decode
MaxDecoded == 8
\* number of calls of SymbolTable methods the threads make between them
MaxOps == 3
\* width in bits given to Symbol and ref_count_ (uint32_t in the source): TLC's
\* integers cannot hold 2^32, and a narrow counter puts wrap-around within reach
SymbolBits == 8

(* Program constants. *)
SpilloverMask == 128
Low7Bits == 127
StatNameSizeEncodingBytes == 2
StatNameMaxSize == 65536
SymbolModulus == 2 ^ SymbolBits

\* The dotted names the caller encodes.
Dot == "."
Names ==
    { <<>>,
      <<"a">>,
      <<Dot>>,
      <<"a", Dot, Dot, "a">> }

Slots == 1 .. MaxStorage

\* The threads that call into the table; thread t keeps its name in storage[t].
Threads == Slots
IdleThread ==
    [ pc |-> "idle", op |-> "none", name |-> <<>>, tokens |-> <<>>, symbols |-> <<>>,
      done |-> 0, held |-> 0, other |-> 0, calls |-> 0 ]

----------------------------------------------------------------------------
(* Bit arithmetic on unsigned integers. *)

\* x & y; for the masks of the codec the result is written down directly: the
\* low bits of x for a mask 2^k - 1, the one bit of x for the mask 2^7
RECURSIVE BitAnd(_, _)
BitAnd(x, y) ==
    IF x = 0 \/ y = 0 THEN 0
    ELSE IF y = Low7Bits THEN x % (Low7Bits + 1)
    ELSE IF y = 255 THEN x % 256
    ELSE IF y = SpilloverMask THEN SpilloverMask * ((x \div SpilloverMask) % 2)
    ELSE (IF x % 2 = 1 /\ y % 2 = 1 THEN 1 ELSE 0) + 2 * BitAnd(x \div 2, y \div 2)

RECURSIVE BitOr(_, _)
BitOr(x, y) ==
    IF x = 0 THEN y
    ELSE IF y = 0 THEN x
    ELSE (IF x % 2 = 1 \/ y % 2 = 1 THEN 1 ELSE 0) + 2 * BitOr(x \div 2, y \div 2)

\* x << n on a Symbol: (x * 2^n) % SymbolModulus, computed without leaving the
\* range of TLC's integers
ShiftLeft(x, n) ==
    IF n >= SymbolBits THEN 0 ELSE (x % (2 ^ (SymbolBits - n))) * (2 ^ n)

----------------------------------------------------------------------------
(* absl::StrSplit(name, '.') and absl::StrJoin(tokens, "."). *)

RECURSIVE StrSplitFrom(_, _, _)
StrSplitFrom(name, tokens, cur) ==
    IF name = <<>> THEN Append(tokens, cur)
    ELSE IF Head(name) = Dot THEN StrSplitFrom(Tail(name), Append(tokens, cur), <<>>)
    ELSE StrSplitFrom(Tail(name), tokens, Append(cur, Head(name)))

StrSplit(name) == StrSplitFrom(name, <<>>, <<>>)

RECURSIVE StrJoin(_)
StrJoin(tokens) ==
    IF tokens = <<>> THEN <<>>
    ELSE IF Len(tokens) = 1 THEN tokens[1]
    ELSE tokens[1] \o <<Dot>> \o StrJoin(Tail(tokens))

----------------------------------------------------------------------------
(* SymbolEncoding: the token codec. *)

\* an encoder that never sets the continuation bit
addSymbolNoSpillover(vec_, symbol) ==
    LET vec  == Append(vec_, BitAnd(symbol, Low7Bits))
        rest == symbol \div 128
    IN  IF rest # 0 THEN Append(vec, rest % 256) ELSE vec

RECURSIVE addSymbol(_, _)
addSymbol(vec_, symbol) ==
    LET byte == IF symbol < 128 THEN symbol
                ELSE BitOr(BitAnd(symbol, Low7Bits), SpilloverMask)
        vec  == Append(vec_, byte % 256)
        rest == symbol \div 128
    IN  IF rest # 0 THEN addSymbol(vec, rest) ELSE vec

RECURSIVE decodeSymbolsFrom(_, _, _, _)
decodeSymbolsFrom(array, symbol_vec, symbol, shift) ==
    IF array = <<>> THEN symbol_vec
    ELSE LET uc  == Head(array)
             sym == BitOr(symbol, ShiftLeft(BitAnd(uc, Low7Bits), shift))
         IN  IF BitAnd(uc, SpilloverMask) = 0
             THEN decodeSymbolsFrom(Tail(array), Append(symbol_vec, sym), 0, 0)
             ELSE decodeSymbolsFrom(Tail(array), symbol_vec, sym, shift + 7)

\* a decoder that carries the finished symbol into the next one
RECURSIVE decodeSymbolsFromCarrying(_, _, _, _)
decodeSymbolsFromCarrying(array, symbol_vec, symbol, shift) ==
    IF array = <<>> THEN symbol_vec
    ELSE LET uc  == Head(array)
             sym == BitOr(symbol, ShiftLeft(BitAnd(uc, Low7Bits), shift))
         IN  IF BitAnd(uc, SpilloverMask) = 0
             THEN decodeSymbolsFromCarrying(Tail(array), Append(symbol_vec, sym), sym, 0)
             ELSE decodeSymbolsFromCarrying(Tail(array), symbol_vec, sym, shift + 7)

decodeSymbolsCarrying(array) == decodeSymbolsFromCarrying(array, <<>>, 0, 0)

decodeSymbols(array) == decodeSymbolsFrom(array, <<>>, 0, 0)

\* a build in which the length is not checked
lengthFitsUnchecked(length) == TRUE

\* ASSERT(length < StatNameMaxSize) in saveLengthToBytesReturningNext
lengthFits(length) == length < StatNameMaxSize

saveLengthToBytesReturningNext(length) ==
    << BitAnd(length, 255), (length \div 256) % 256 >>

moveToStorage(vec_) == saveLengthToBytesReturningNext(Len(vec_)) \o vec_

----------------------------------------------------------------------------
(* StatName: a view of size_and_data_. *)

dataSize(size_and_data_) == BitOr(size_and_data_[1], size_and_data_[2] * 256)

size(size_and_data_) == dataSize(size_and_data_) + StatNameSizeEncodingBytes

data(size_and_data_) ==
    SubSeq(size_and_data_, StatNameSizeEncodingBytes + 1,
           StatNameSizeEncodingBytes + dataSize(size_and_data_))

copyToStorage(size_and_data_) == SubSeq(size_and_data_, 1, size(size_and_data_))

\* an equality that stops after comparing the sizes
StatNameEqSizeOnly(lhs, rhs) == dataSize(lhs) = dataSize(rhs)

StatNameEq(lhs, rhs) ==
    LET sz == dataSize(lhs)
    IN  sz = dataSize(rhs) /\ data(lhs) = data(rhs)

----------------------------------------------------------------------------
(* SymbolTable.  A table value T is the record of the five guarded members. *)

Table ==
    [ encode_map_ |-> encode_map_, decode_map_ |-> decode_map_, pool_ |-> pool_,
      next_symbol_ |-> next_symbol_, monotonic_counter_ |-> monotonic_counter_ ]

EmptyMap == [x \in {} |-> 0]

SymbolTableCtor ==
    [ encode_map_ |-> EmptyMap, decode_map_ |-> EmptyMap, pool_ |-> <<>>,
      next_symbol_ |-> 0, monotonic_counter_ |-> 0 ]

\* flat_hash_map::insert: the entry is added unless the key is already there
MapInsert(map, key, value) ==
    IF key \in DOMAIN map THEN map ELSE map @@ (key :> value)

MapErase(map, key) == [k \in DOMAIN map \ {key} |-> map[k]] @@ EmptyMap

\* a newSymbol that reads the top of pool_ and leaves it there
newSymbolKeepsPool(T) ==
    IF T.pool_ = <<>>
    THEN LET c == (T.monotonic_counter_ + 1) % SymbolModulus
         IN  [T EXCEPT !.monotonic_counter_ = c, !.next_symbol_ = c]
    ELSE [T EXCEPT !.next_symbol_ = T.pool_[Len(T.pool_)]]

\* a newSymbol that takes the oldest symbol of pool_
newSymbolOldestFirst(T) ==
    IF T.pool_ = <<>>
    THEN LET c == (T.monotonic_counter_ + 1) % SymbolModulus
         IN  [T EXCEPT !.monotonic_counter_ = c, !.next_symbol_ = c]
    ELSE [T EXCEPT !.next_symbol_ = Head(T.pool_), !.pool_ = Tail(T.pool_)]

\* a newSymbol that advances the counter whether it uses pool_ or not
newSymbolAlwaysCounts(T) ==
    LET c == (T.monotonic_counter_ + 1) % SymbolModulus
    IN  IF T.pool_ = <<>>
        THEN [T EXCEPT !.monotonic_counter_ = c, !.next_symbol_ = c]
        ELSE [T EXCEPT !.monotonic_counter_ = c,
                       !.next_symbol_ = T.pool_[Len(T.pool_)],
                       !.pool_ = SubSeq(T.pool_, 1, Len(T.pool_) - 1)]

newSymbol(T) ==
    IF T.pool_ = <<>>
    THEN LET c == (T.monotonic_counter_ + 1) % SymbolModulus
         IN  [T EXCEPT !.monotonic_counter_ = c, !.next_symbol_ = c]
    ELSE [T EXCEPT !.next_symbol_ = T.pool_[Len(T.pool_)],
                   !.pool_ = SubSeq(T.pool_, 1, Len(T.pool_) - 1)]

\* a lookup that counts a token found in the map twice
toSymbolCountsTwice(T, sv) ==
    IF sv \notin DOMAIN T.encode_map_
    THEN LET ins == [T EXCEPT
                       !.encode_map_ = MapInsert(@, sv, [symbol_ |-> T.next_symbol_,
                                                         ref_count_ |-> 1]),
                       !.decode_map_ = MapInsert(@, T.next_symbol_, sv)]
             staged == newSymbol(ins)
         IN  [table  |-> staged,
              result |-> T.next_symbol_,
              ok     |-> /\ T.next_symbol_ \notin DOMAIN T.decode_map_
                         /\ staged.monotonic_counter_ # 0]
    ELSE [table  |-> [T EXCEPT !.encode_map_[sv].ref_count_ = (@ + 2) % SymbolModulus],
          result |-> T.encode_map_[sv].symbol_,
          ok     |-> TRUE]

\* an insertion that does not stage the next symbol
toSymbolNotStaged(T, sv) ==
    IF sv \notin DOMAIN T.encode_map_
    THEN [table  |-> [T EXCEPT
                        !.encode_map_ = MapInsert(@, sv, [symbol_ |-> T.next_symbol_,
                                                          ref_count_ |-> 1]),
                        !.decode_map_ = MapInsert(@, T.next_symbol_, sv)],
          result |-> T.next_symbol_,
          ok     |-> TRUE]
    ELSE [table  |-> [T EXCEPT !.encode_map_[sv].ref_count_ = (@ + 1) % SymbolModulus],
          result |-> T.encode_map_[sv].symbol_,
          ok     |-> TRUE]

\* a lookup that does not count a token found in the map
toSymbolUncounted(T, sv) ==
    IF sv \notin DOMAIN T.encode_map_
    THEN LET ins == [T EXCEPT
                       !.encode_map_ = MapInsert(@, sv, [symbol_ |-> T.next_symbol_,
                                                         ref_count_ |-> 1]),
                       !.decode_map_ = MapInsert(@, T.next_symbol_, sv)]
             staged == newSymbol(ins)
         IN  [table  |-> staged,
              result |-> T.next_symbol_,
              ok     |-> /\ T.next_symbol_ \notin DOMAIN T.decode_map_
                         /\ staged.monotonic_counter_ # 0]
    ELSE [table  |-> T,
          result |-> T.encode_map_[sv].symbol_,
          ok     |-> TRUE]

\* a lookup that writes a fresh entry over the one it found
toSymbolOverwrites(T, sv) ==
    IF sv \notin DOMAIN T.encode_map_
    THEN LET ins == [T EXCEPT
                       !.encode_map_ = MapInsert(@, sv, [symbol_ |-> T.next_symbol_,
                                                         ref_count_ |-> 1]),
                       !.decode_map_ = MapInsert(@, T.next_symbol_, sv)]
             staged == newSymbol(ins)
         IN  [table  |-> staged,
              result |-> T.next_symbol_,
              ok     |-> /\ T.next_symbol_ \notin DOMAIN T.decode_map_
                         /\ staged.monotonic_counter_ # 0]
    ELSE [table  |-> [T EXCEPT !.encode_map_[sv].ref_count_ = 1],
          result |-> T.encode_map_[sv].symbol_,
          ok     |-> TRUE]

\* a lookup that interns every occurrence afresh
toSymbolFreshEach(T, sv) ==
    LET ins == [T EXCEPT
                  !.encode_map_ = (sv :> [symbol_ |-> T.next_symbol_, ref_count_ |-> 1]) @@ @,
                  !.decode_map_ = MapInsert(@, T.next_symbol_, sv)]
        staged == newSymbol(ins)
    IN  [table  |-> staged,
         result |-> T.next_symbol_,
         ok     |-> /\ T.next_symbol_ \notin DOMAIN T.decode_map_
                    /\ staged.monotonic_counter_ # 0]

\* an insertion in a build without newSymbol's check of the counter
toSymbolWrapUnchecked(T, sv) ==
    IF sv \notin DOMAIN T.encode_map_
    THEN LET ins == [T EXCEPT
                       !.encode_map_ = MapInsert(@, sv, [symbol_ |-> T.next_symbol_,
                                                         ref_count_ |-> 1]),
                       !.decode_map_ = MapInsert(@, T.next_symbol_, sv)]
         IN  [table  |-> newSymbol(ins),
              result |-> T.next_symbol_,
              ok     |-> T.next_symbol_ \notin DOMAIN T.decode_map_]
    ELSE [table  |-> [T EXCEPT !.encode_map_[sv].ref_count_ = (@ + 1) % SymbolModulus],
          result |-> T.encode_map_[sv].symbol_,
          ok     |-> TRUE]

\* an insertion that prefers the top of pool_ to the staged symbol
toSymbolTakesPoolTop(T, sv) ==
    IF sv \notin DOMAIN T.encode_map_
    THEN IF T.pool_ = <<>>
         THEN LET ins == [T EXCEPT
                            !.encode_map_ = MapInsert(@, sv, [symbol_ |-> T.next_symbol_,
                                                              ref_count_ |-> 1]),
                            !.decode_map_ = MapInsert(@, T.next_symbol_, sv)]
                  staged == newSymbol(ins)
              IN  [table  |-> staged,
                   result |-> T.next_symbol_,
                   ok     |-> /\ T.next_symbol_ \notin DOMAIN T.decode_map_
                              /\ staged.monotonic_counter_ # 0]
         ELSE LET top == T.pool_[Len(T.pool_)]
              IN  [table  |-> [T EXCEPT
                                 !.encode_map_ = MapInsert(@, sv, [symbol_ |-> top,
                                                                   ref_count_ |-> 1]),
                                 !.decode_map_ = MapInsert(@, top, sv),
                                 !.pool_ = SubSeq(@, 1, Len(@) - 1)],
                   result |-> top,
                   ok     |-> top \notin DOMAIN T.decode_map_]
    ELSE [table  |-> [T EXCEPT !.encode_map_[sv].ref_count_ = (@ + 1) % SymbolModulus],
          result |-> T.encode_map_[sv].symbol_,
          ok     |-> TRUE]

\* returns the table after the call and the symbol returned; ok is FALSE when
\* an insertion did not take place or newSymbol's ASSERT(monotonic_counter_ != 0)
\* fails
toSymbol(T, sv) ==
    IF sv \notin DOMAIN T.encode_map_
    THEN LET ins == [T EXCEPT
                       !.encode_map_ = MapInsert(@, sv, [symbol_ |-> T.next_symbol_,
                                                         ref_count_ |-> 1]),
                       !.decode_map_ = MapInsert(@, T.next_symbol_, sv)]
             staged == newSymbol(ins)
         IN  [table  |-> staged,
              result |-> T.next_symbol_,
              ok     |-> /\ T.next_symbol_ \notin DOMAIN T.decode_map_
                         /\ staged.monotonic_counter_ # 0]
    ELSE [table  |-> [T EXCEPT !.encode_map_[sv].ref_count_ = (@ + 1) % SymbolModulus],
          result |-> T.encode_map_[sv].symbol_,
          ok     |-> TRUE]

RECURSIVE encodeTokens(_, _, _)
encodeTokens(T, tokens, symbols) ==
    IF tokens = <<>> THEN [table |-> T, symbols |-> symbols, ok |-> TRUE]
    ELSE LET r == toSymbol(T, Head(tokens))
         IN  IF r.ok
             THEN encodeTokens(r.table, Tail(tokens), Append(symbols, r.result))
             ELSE [table |-> r.table, symbols |-> Append(symbols, r.result), ok |-> FALSE]

RECURSIVE addSymbols(_, _)
addSymbols(vec_, symbols) ==
    IF symbols = <<>> THEN vec_
    ELSE addSymbols(addSymbol(vec_, Head(symbols)), Tail(symbols))

\* an encoder that skips the empty tokens of the split
encodeSkipEmpty(T, name) ==
    IF name = <<>> THEN [table |-> T, vec_ |-> <<>>, locked |-> FALSE, ok |-> TRUE]
    ELSE LET r == encodeTokens(T, SelectSeq(StrSplit(name), LAMBDA t : t # <<>>), <<>>)
         IN  [table |-> r.table, vec_ |-> addSymbols(<<>>, r.symbols), locked |-> TRUE,
              ok |-> r.ok]

\* an encoder without the early return for the empty name
encodeSplitsEmpty(T, name) ==
    LET r == encodeTokens(T, StrSplit(name), <<>>)
    IN  [table |-> r.table, vec_ |-> addSymbols(<<>>, r.symbols), locked |-> TRUE,
         ok |-> r.ok]

\* returns the table after the call, the SymbolEncoding's vec_, whether lock_ was
\* taken and whether every ASSERT on the way passed
encode(T, name) ==
    IF name = <<>> THEN [table |-> T, vec_ |-> <<>>, locked |-> FALSE, ok |-> TRUE]
    ELSE LET r == encodeTokens(T, StrSplit(name), <<>>)
         IN  [table |-> r.table, vec_ |-> addSymbols(<<>>, r.symbols), locked |-> TRUE,
              ok |-> r.ok]

\* a decoder that leaves out the symbols it does not find
decodeSymbolVecSkipsUnknown(T, symbols) ==
    LET known == SelectSeq(symbols, LAMBDA y : y \in DOMAIN T.decode_map_)
    IN  [ok |-> TRUE, str |-> StrJoin([i \in 1 .. Len(known) |-> T.decode_map_[known[i]]])]

\* fromSymbol for every symbol; ok is FALSE when RELEASE_ASSERT "no such symbol" fires
decodeSymbolVec(T, symbols) ==
    IF \A i \in 1 .. Len(symbols) : symbols[i] \in DOMAIN T.decode_map_
    THEN [ok |-> TRUE, str |-> StrJoin([i \in 1 .. Len(symbols) |-> T.decode_map_[symbols[i]]])]
    ELSE [ok |-> FALSE, str |-> <<>>]

decode(T, size_and_data_) == decodeSymbolVec(T, decodeSymbols(data(size_and_data_)))

\* the symbols of a vector with repetitions dropped
RECURSIVE Distinct(_)
Distinct(symbols) ==
    IF symbols = <<>> THEN <<>>
    ELSE <<Head(symbols)>> \o Distinct(SelectSeq(Tail(symbols), LAMBDA y : y # Head(symbols)))

\* ok is FALSE when one of the two ASSERTs on the lookups fails
RECURSIVE incRefCountLoop(_, _)
incRefCountLoop(T, symbols) ==
    IF symbols = <<>> THEN [table |-> T, ok |-> TRUE]
    ELSE LET symbol == Head(symbols)
         IN  IF symbol \notin DOMAIN T.decode_map_
                \/ T.decode_map_[symbol] \notin DOMAIN T.encode_map_
             THEN [table |-> T, ok |-> FALSE]
             ELSE incRefCountLoop(
                      [T EXCEPT !.encode_map_[T.decode_map_[symbol]].ref_count_ =
                                    (@ + 1) % SymbolModulus],
                      Tail(symbols))

\* a retain that counts every token of the name once, however often it occurs
incRefCountOncePerToken(T, stat_name) ==
    incRefCountLoop(T, Distinct(decodeSymbols(data(stat_name))))

\* a retain that counts every occurrence twice
incRefCountTwice(T, stat_name) ==
    LET once == incRefCountLoop(T, decodeSymbols(data(stat_name)))
    IN  IF once.ok THEN incRefCountLoop(once.table, decodeSymbols(data(stat_name)))
        ELSE once

\* a copy that forgets to retain the tokens it now shares
incRefCountForgotten(T, stat_name) == [table |-> T, ok |-> TRUE]

incRefCount(T, stat_name) == incRefCountLoop(T, decodeSymbols(data(stat_name)))

RECURSIVE freeLoop(_, _)
freeLoop(T, symbols) ==
    IF symbols = <<>> THEN [table |-> T, ok |-> TRUE]
    ELSE LET symbol == Head(symbols)
         IN  IF symbol \notin DOMAIN T.decode_map_
                \/ T.decode_map_[symbol] \notin DOMAIN T.encode_map_
             THEN [table |-> T, ok |-> FALSE]
             ELSE LET token == T.decode_map_[symbol]
                      count == (T.encode_map_[token].ref_count_ - 1) % SymbolModulus
                  IN  IF count = 0
                      THEN freeLoop([T EXCEPT !.decode_map_ = MapErase(@, symbol),
                                              !.encode_map_ = MapErase(@, token),
                                              !.pool_ = Append(@, symbol)],
                                    Tail(symbols))
                      ELSE freeLoop([T EXCEPT !.encode_map_[token].ref_count_ = count],
                                    Tail(symbols))

\* a release that pushes the symbol on pool_ at every decrement
RECURSIVE freeLoopPushesEach(_, _)
freeLoopPushesEach(T, symbols) ==
    IF symbols = <<>> THEN [table |-> T, ok |-> TRUE]
    ELSE LET symbol == Head(symbols)
         IN  IF symbol \notin DOMAIN T.decode_map_
                \/ T.decode_map_[symbol] \notin DOMAIN T.encode_map_
             THEN [table |-> T, ok |-> FALSE]
             ELSE LET token == T.decode_map_[symbol]
                      count == (T.encode_map_[token].ref_count_ - 1) % SymbolModulus
                  IN  IF count = 0
                      THEN freeLoopPushesEach(
                               [T EXCEPT !.decode_map_ = MapErase(@, symbol),
                                         !.encode_map_ = MapErase(@, token),
                                         !.pool_ = Append(@, symbol)],
                               Tail(symbols))
                      ELSE freeLoopPushesEach(
                               [T EXCEPT !.encode_map_[token].ref_count_ = count,
                                         !.pool_ = Append(@, symbol)],
                               Tail(symbols))

freePushesEach(T, stat_name) == freeLoopPushesEach(T, decodeSymbols(data(stat_name)))

\* a release that lowers the counts but never erases an entry
RECURSIVE freeLoopKeepsEntries(_, _)
freeLoopKeepsEntries(T, symbols) ==
    IF symbols = <<>> THEN [table |-> T, ok |-> TRUE]
    ELSE LET symbol == Head(symbols)
         IN  IF symbol \notin DOMAIN T.decode_map_
                \/ T.decode_map_[symbol] \notin DOMAIN T.encode_map_
             THEN [table |-> T, ok |-> FALSE]
             ELSE freeLoopKeepsEntries(
                      [T EXCEPT !.encode_map_[T.decode_map_[symbol]].ref_count_ =
                                    (@ - 1) % SymbolModulus],
                      Tail(symbols))

freeKeepsEntries(T, stat_name) == freeLoopKeepsEntries(T, decodeSymbols(data(stat_name)))

\* a release that erases the tokens of the name whoever else still holds them
freeErasesShared(T, stat_name) ==
    LET symbols == decodeSymbols(data(stat_name))
        own(e)  == Cardinality({i \in 1 .. Len(symbols) : symbols[i] = e.symbol_})
        alone   == [T EXCEPT !.encode_map_ =
                       [str \in DOMAIN T.encode_map_ |->
                           IF own(T.encode_map_[str]) > 0
                           THEN [T.encode_map_[str] EXCEPT
                                    !.ref_count_ = own(T.encode_map_[str])]
                           ELSE T.encode_map_[str]]]
    IN  freeLoop(alone, symbols)

\* a release that decrements every token of the name once, however often it occurs
freeOncePerToken(T, stat_name) == freeLoop(T, Distinct(decodeSymbols(data(stat_name))))

free(T, stat_name) == freeLoop(T, decodeSymbols(data(stat_name)))

\* the value of a character, as operator< of absl::string_view compares them
Code(c) ==
    CASE c = Dot -> 46
      [] c = "0" -> 48 [] c = "1" -> 49 [] c = "2" -> 50 [] c = "3" -> 51
      [] c = "4" -> 52 [] c = "5" -> 53 [] c = "6" -> 54 [] c = "7" -> 55
      [] c = "8" -> 56 [] c = "9" -> 57
      [] c = "a" -> 97 [] c = "b" -> 98 [] c = "c" -> 99

\* absl::string_view operator<
RECURSIVE StrLess(_, _)
StrLess(x, y) ==
    IF y = <<>> THEN FALSE
    ELSE IF x = <<>> THEN TRUE
    ELSE IF Code(Head(x)) # Code(Head(y)) THEN Code(Head(x)) < Code(Head(y))
    ELSE StrLess(Tail(x), Tail(y))

\* a comparison by the numbers of the symbols instead of their strings
lessThanBySymbol(T, a, b) ==
    LET av == decodeSymbols(data(a))
        bv == decodeSymbols(data(b))
        n  == IF Len(av) < Len(bv) THEN Len(av) ELSE Len(bv)
        differ == {i \in 1 .. n : av[i] # bv[i]}
    IN  IF differ = {}
        THEN [result |-> Len(av) < Len(bv), locked |-> FALSE, ok |-> TRUE]
        ELSE LET i == CHOOSE j \in differ : \A k \in differ : j <= k
             IN  [result |-> av[i] < bv[i], locked |-> TRUE, ok |-> TRUE]

\* returns the result, whether lock_ was taken, and whether both fromSymbol
\* calls passed their RELEASE_ASSERT
\* a comparison that answers true for two names with the same symbols
lessThanOrSame(T, a, b) ==
    LET av == decodeSymbols(data(a))
        bv == decodeSymbols(data(b))
        n  == IF Len(av) < Len(bv) THEN Len(av) ELSE Len(bv)
        differ == {i \in 1 .. n : av[i] # bv[i]}
    IN  IF differ = {}
        THEN [result |-> Len(av) <= Len(bv), locked |-> FALSE, ok |-> TRUE]
        ELSE LET i == CHOOSE j \in differ : \A k \in differ : j <= k
             IN  IF av[i] \in DOMAIN T.decode_map_ /\ bv[i] \in DOMAIN T.decode_map_
                 THEN [result |-> StrLess(T.decode_map_[av[i]], T.decode_map_[bv[i]]),
                       locked |-> TRUE, ok |-> TRUE]
                 ELSE [result |-> FALSE, locked |-> TRUE, ok |-> FALSE]

lessThan(T, a, b) ==
    LET av == decodeSymbols(data(a))
        bv == decodeSymbols(data(b))
        n  == IF Len(av) < Len(bv) THEN Len(av) ELSE Len(bv)
        differ == {i \in 1 .. n : av[i] # bv[i]}
    IN  IF differ = {}
        THEN [result |-> Len(av) < Len(bv), locked |-> FALSE, ok |-> TRUE]
        ELSE LET i == CHOOSE j \in differ : \A k \in differ : j <= k
             IN  IF av[i] \in DOMAIN T.decode_map_ /\ bv[i] \in DOMAIN T.decode_map_
                 THEN [result |-> StrLess(T.decode_map_[av[i]], T.decode_map_[bv[i]]),
                       locked |-> TRUE, ok |-> TRUE]
                 ELSE [result |-> FALSE, locked |-> TRUE, ok |-> FALSE]

numSymbols(T) == Cardinality(DOMAIN T.encode_map_)

----------------------------------------------------------------------------
(* StatNameJoiner: the bytes_ each constructor leaves. *)

alloc(num_bytes) == saveLengthToBytesReturningNext(num_bytes)

\* a joiner that copies its second argument first
StatNameJoinerSwapped(a, b) ==
    LET a_size == dataSize(a)
        b_size == dataSize(b)
    IN  alloc(a_size + b_size) \o data(b) \o data(a)

StatNameJoiner(a, b) ==
    LET a_size == dataSize(a)
        b_size == dataSize(b)
    IN  alloc(a_size + b_size) \o data(a) \o data(b)

RECURSIVE SumDataSize(_)
SumDataSize(stat_names) ==
    IF stat_names = <<>> THEN 0
    ELSE dataSize(Head(stat_names)) + SumDataSize(Tail(stat_names))

RECURSIVE CopyAll(_)
CopyAll(stat_names) ==
    IF stat_names = <<>> THEN <<>>
    ELSE data(Head(stat_names)) \o CopyAll(Tail(stat_names))

\* a vector joiner that writes the size of the last name as the size of the whole
StatNameJoinerVecLastSize(stat_names) ==
    alloc(IF stat_names = <<>> THEN 0 ELSE dataSize(stat_names[Len(stat_names)]))
        \o CopyAll(stat_names)

StatNameJoinerVec(stat_names) == alloc(SumDataSize(stat_names)) \o CopyAll(stat_names)

----------------------------------------------------------------------------
(* The caller's objects. *)

NoBytes == <<>>
NoStorage == [bytes |-> NoBytes, name |-> <<>>]
NoJoiner == [bytes |-> NoBytes, inputs |-> <<>>]

Live(h) == storage[h].bytes # NoBytes
Joined == joiner.bytes # NoBytes

\* the slots whose names the joiner was built from
RECURSIVE Range(_)
Range(seq) == IF seq = <<>> THEN {} ELSE {Head(seq)} \cup Range(Tail(seq))
Pinned(h) == h \in Range(joiner.inputs)

TableIs(T) ==
    /\ encode_map_ = T.encode_map_
    /\ decode_map_ = T.decode_map_
    /\ pool_ = T.pool_
    /\ next_symbol_ = T.next_symbol_
    /\ monotonic_counter_ = T.monotonic_counter_

SetTable(T) ==
    /\ encode_map_' = T.encode_map_
    /\ decode_map_' = T.decode_map_
    /\ pool_' = T.pool_
    /\ next_symbol_' = T.next_symbol_
    /\ monotonic_counter_' = T.monotonic_counter_

\* A StatName the caller can hand to a call: 0 is joiner.statName(), h > 0 is
\* storage[h].statName().
Refs == {0} \cup Slots
Valid(ref) == IF ref = 0 THEN Joined ELSE Live(ref)
BytesOf(ref) == IF ref = 0 THEN joiner.bytes ELSE storage[ref].bytes

Init ==
    /\ TableIs(SymbolTableCtor)
    /\ storage = [h \in Slots |-> NoStorage]
    /\ joiner = NoJoiner
    /\ lock_acquired = FALSE
    /\ fault = "none"
    /\ symbol_array = moveToStorage(<<>>)
    /\ decoded = <<>>
    /\ lock_ = 0
    /\ threads = [t \in Threads |-> IdleThread]

\* StatNameStorage(absl::string_view name, SymbolTable& table)
NewStorage(h, name) ==
    /\ fault = "none"
    /\ UNCHANGED threadvars
    /\ ~Live(h)
    /\ LET r == encode(Table, name)
       IN  /\ SetTable(r.table)
           /\ storage' = [storage EXCEPT ![h] = [bytes |-> moveToStorage(r.vec_),
                                                 name  |-> name]]
           /\ lock_acquired' = r.locked
           /\ fault' = IF r.ok /\ lengthFits(Len(r.vec_)) THEN fault ELSE "assert"
    /\ UNCHANGED joiner
    /\ UNCHANGED rawvars

\* StatNameStorage(StatName src, SymbolTable& table); the copy denotes the string
\* src was encoded from
CopyStorage(h, src) ==
    /\ fault = "none"
    /\ UNCHANGED threadvars
    /\ ~Live(h)
    /\ Live(src)
    /\ LET bytes == copyToStorage(BytesOf(src))
           r     == incRefCount(Table, bytes)
       IN  /\ SetTable(r.table)
           /\ IF r.ok
              THEN /\ storage' = [storage EXCEPT
                                    ![h] = [bytes |-> bytes,
                                            name  |-> storage[src].name]]
                   /\ fault' = fault
              ELSE /\ storage' = storage
                   /\ fault' = "assert"
    /\ lock_acquired' = TRUE
    /\ UNCHANGED joiner
    /\ UNCHANGED rawvars

\* StatNameStorage::free(SymbolTable& table).  The caller keeps the names a
\* joiner was built from for as long as the joiner exists.
FreeStorage(h) ==
    /\ fault = "none"
    /\ UNCHANGED threadvars
    /\ Live(h)
    /\ ~Pinned(h)
    /\ LET r == free(Table, storage[h].bytes)
       IN  /\ SetTable(r.table)
           /\ fault' = IF r.ok THEN fault ELSE "assert"
    /\ storage' = [storage EXCEPT ![h] = NoStorage]
    /\ lock_acquired' = TRUE
    /\ UNCHANGED joiner
    /\ UNCHANGED rawvars

\* a destructor without the check on bytes_
DestroyStorageUnchecked(h) ==
    /\ fault = "none"
    /\ UNCHANGED threadvars
    /\ ~Joined
    /\ UNCHANGED vars

\* StatNameStorage::~StatNameStorage(): ASSERT(bytes_ == nullptr).  Destroying a
\* container that was freed, leaves nothing behind; destroying one that still
\* holds its bytes ends the process.  The joiner is a scoped temporary of the
\* caller and is gone by the time a container is destroyed.
DestroyStorage(h) ==
    /\ fault = "none"
    /\ UNCHANGED threadvars
    /\ ~Joined
    /\ fault' = IF storage[h].bytes = NoBytes THEN fault ELSE "assert"
    /\ UNCHANGED <<tablevars, storage, joiner, lock_acquired>>
    /\ UNCHANGED rawvars

\* SymbolTable::~SymbolTable(): ASSERT(numSymbols() == 0).  The table outlives
\* the containers and the joiner of its caller.
DestroyTable ==
    /\ fault = "none"
    /\ UNCHANGED threadvars
    /\ \A h \in Slots : ~Live(h)
    /\ ~Joined
    /\ fault' = IF numSymbols(Table) = 0 THEN "destroyed" ELSE "assert"
    /\ lock_acquired' = TRUE
    /\ UNCHANGED <<tablevars, storage, joiner>>
    /\ UNCHANGED rawvars

\* SymbolTable::lessThan(const StatName& a, const StatName& b): the result goes
\* to the caller
LessThanCall(a, b) ==
    /\ fault = "none"
    /\ UNCHANGED threadvars
    /\ Valid(a) /\ Valid(b)
    /\ LET r == lessThan(Table, BytesOf(a), BytesOf(b))
       IN  /\ lock_acquired' = r.locked
           /\ fault' = IF r.ok THEN fault ELSE "no such symbol"
    /\ UNCHANGED <<tablevars, storage, joiner>>
    /\ UNCHANGED rawvars

\* a toString that retains the name it renders
ToStringCallRetaining(src) ==
    /\ fault = "none"
    /\ UNCHANGED threadvars
    /\ Valid(src)
    /\ fault' = IF decode(Table, BytesOf(src)).ok THEN fault ELSE "no such symbol"
    /\ lock_acquired' = TRUE
    /\ SetTable(incRefCount(Table, BytesOf(src)).table)
    /\ UNCHANGED <<storage, joiner>>
    /\ UNCHANGED rawvars

\* StatName::toString(const SymbolTable& table): the string goes to the caller,
\* the process ends when RELEASE_ASSERT fires
ToStringCall(src) ==
    /\ fault = "none"
    /\ UNCHANGED threadvars
    /\ Valid(src)
    /\ fault' = IF decode(Table, BytesOf(src)).ok THEN fault ELSE "no such symbol"
    /\ lock_acquired' = TRUE
    /\ UNCHANGED <<tablevars, storage, joiner>>
    /\ UNCHANGED rawvars

\* a joiner that takes lock_ and retains the names it joins
JoinRetaining(a, b) ==
    /\ fault = "none"
    /\ UNCHANGED threadvars
    /\ ~Joined
    /\ Live(a) /\ Live(b)
    /\ dataSize(storage[a].bytes) + dataSize(storage[b].bytes) <= MaxJoinBytes
    /\ joiner' = [bytes  |-> StatNameJoiner(storage[a].bytes, storage[b].bytes),
                  inputs |-> <<a, b>>]
    /\ SetTable(incRefCount(incRefCount(Table, storage[a].bytes).table,
                            storage[b].bytes).table)
    /\ lock_acquired' = TRUE
    /\ UNCHANGED <<storage, fault>>
    /\ UNCHANGED rawvars

\* StatNameJoiner(StatName a, StatName b)
Join(a, b) ==
    /\ fault = "none"
    /\ UNCHANGED threadvars
    /\ ~Joined
    /\ Live(a) /\ Live(b)
    /\ dataSize(storage[a].bytes) + dataSize(storage[b].bytes) <= MaxJoinBytes
    /\ joiner' = [bytes  |-> StatNameJoiner(storage[a].bytes, storage[b].bytes),
                  inputs |-> <<a, b>>]
    /\ fault' = IF lengthFits(dataSize(storage[a].bytes) + dataSize(storage[b].bytes))
                THEN fault ELSE "assert"
    /\ lock_acquired' = FALSE
    /\ UNCHANGED <<tablevars, storage>>
    /\ UNCHANGED rawvars

\* StatNameJoiner(const std::vector<StatName>& stat_names)
JoinVec(stat_names) ==
    /\ fault = "none"
    /\ UNCHANGED threadvars
    /\ ~Joined
    /\ \A i \in 1 .. Len(stat_names) : Live(stat_names[i])
    /\ SumDataSize([i \in 1 .. Len(stat_names) |-> storage[stat_names[i]].bytes])
          <= MaxJoinBytes
    /\ joiner' = [bytes  |-> StatNameJoinerVec([i \in 1 .. Len(stat_names) |->
                                                   storage[stat_names[i]].bytes]),
                  inputs |-> stat_names]
    /\ fault' = IF lengthFits(SumDataSize([i \in 1 .. Len(stat_names) |->
                                             storage[stat_names[i]].bytes]))
                THEN fault ELSE "assert"
    /\ lock_acquired' = FALSE
    /\ UNCHANGED <<tablevars, storage>>
    /\ UNCHANGED rawvars

\* ~StatNameJoiner(): bytes_ is released
DestroyJoiner ==
    /\ fault = "none"
    /\ UNCHANGED threadvars
    /\ Joined
    /\ joiner' = NoJoiner
    /\ lock_acquired' = FALSE
    /\ UNCHANGED <<tablevars, storage, fault>>
    /\ UNCHANGED rawvars

\* a scoped container whose destructor does not free
TempNameNeverFreed(name) ==
    /\ fault = "none"
    /\ UNCHANGED threadvars
    /\ LET e == encode(Table, name)
       IN  /\ SetTable(e.table)
           /\ fault' = IF e.ok /\ lengthFits(Len(e.vec_)) THEN fault ELSE "assert"
    /\ lock_acquired' = TRUE
    /\ UNCHANGED <<storage, joiner>>
    /\ UNCHANGED rawvars

\* { StatNameTempStorage tmp(name, table); }: constructed from a string and
\* destroyed at the end of its scope
TempName(name) ==
    /\ fault = "none"
    /\ UNCHANGED threadvars
    /\ LET e == encode(Table, name)
           f == free(e.table, moveToStorage(e.vec_))
       IN  IF e.ok /\ lengthFits(Len(e.vec_))
           THEN /\ SetTable(f.table)
                /\ fault' = IF f.ok THEN fault ELSE "assert"
           ELSE /\ SetTable(e.table)
                /\ fault' = "assert"
    /\ lock_acquired' = TRUE
    /\ UNCHANGED <<storage, joiner>>
    /\ UNCHANGED rawvars

\* { StatNameTempStorage tmp(src, table); }: copied from a StatName and destroyed
\* at the end of its scope
TempCopy(src) ==
    /\ fault = "none"
    /\ UNCHANGED threadvars
    /\ Valid(src)
    /\ LET bytes == copyToStorage(BytesOf(src))
           r     == incRefCount(Table, bytes)
           f     == free(r.table, bytes)
       IN  IF r.ok
           THEN /\ SetTable(f.table)
                /\ fault' = IF f.ok THEN fault ELSE "assert"
           ELSE /\ SetTable(r.table)
                /\ fault' = "assert"
    /\ lock_acquired' = TRUE
    /\ UNCHANGED <<storage, joiner>>
    /\ UNCHANGED rawvars

\* The i-th throw-away name: one token, the three decimal digits of i.
Digits == <<"0", "1", "2", "3", "4", "5", "6", "7", "8", "9">>
ChurnName(i) ==
    << Digits[((i \div 100) % 10) + 1], Digits[((i \div 10) % 10) + 1], Digits[(i % 10) + 1] >>

\* StatNameStorage(ChurnName(i), table) for i = lo .. hi, in this order
RECURSIVE ChurnEncode(_, _, _)
ChurnEncode(T, lo, hi) ==
    IF lo > hi THEN [held |-> <<>>, table |-> T, ok |-> TRUE]
    ELSE IF lo = hi
    THEN LET e == encode(T, ChurnName(lo))
         IN  [held |-> <<moveToStorage(e.vec_)>>, table |-> e.table, ok |-> e.ok]
    ELSE LET mid   == (lo + hi) \div 2
             left  == ChurnEncode(T, lo, mid)
             right == ChurnEncode(left.table, mid + 1, hi)
         IN  IF left.ok
             THEN [held |-> left.held \o right.held, table |-> right.table,
                   ok |-> right.ok]
             ELSE left

\* free(table) on held[lo] .. held[hi], in this order
RECURSIVE ChurnFree(_, _, _, _)
ChurnFree(T, held, lo, hi) ==
    IF lo > hi THEN [table |-> T, ok |-> TRUE]
    ELSE IF lo = hi THEN free(T, held[lo])
    ELSE LET mid  == (lo + hi) \div 2
             left == ChurnFree(T, held, lo, mid)
         IN  IF left.ok THEN ChurnFree(left.table, held, mid + 1, hi) ELSE left

\* On a table that has interned nothing yet the caller creates ChurnCount
\* single-token names and then frees them in the order of creation.
Churn ==
    /\ fault = "none"
    /\ UNCHANGED threadvars
    /\ monotonic_counter_ = 0
    /\ DOMAIN encode_map_ = {}
    /\ LET e == ChurnEncode(Table, 1, ChurnCount)
           f == ChurnFree(e.table, e.held, 1, ChurnCount)
       IN  IF e.ok
           THEN /\ SetTable(f.table)
                /\ fault' = IF f.ok THEN fault ELSE "assert"
           ELSE /\ SetTable(e.table)
                /\ fault' = "assert"
    /\ lock_acquired' = TRUE
    /\ UNCHANGED <<storage, joiner>>
    /\ UNCHANGED rawvars

\* vectors of up to MaxJoinVec storage slots
SlotVecs == UNION { [1 .. n -> Slots] : n \in 0 .. MaxJoinVec }

Next ==
    \/ \E h \in Slots, name \in Names : NewStorage(h, name)
    \/ \E h \in Slots, src \in Slots : CopyStorage(h, src)
    \/ \E h \in Slots : FreeStorage(h)
    \/ \E h \in Slots : DestroyStorage(h)
    \/ DestroyTable
    \/ \E src \in Refs : ToStringCall(src)
    \/ \E a \in Refs, b \in Slots : LessThanCall(a, b)
    \/ \E a \in Slots, b \in Slots : Join(a, b)
    \/ \E stat_names \in SlotVecs : JoinVec(stat_names)
    \/ DestroyJoiner
    \/ \E name \in Names : TempName(name)
    \/ \E src \in Refs : TempCopy(src)
    \/ Churn

Spec == Init /\ [][Next]_vars

----------------------------------------------------------------------------
(* StatNames in memory of the caller.  A StatName is a view of any uint8_t  *)
(* array ("some applications may want to hold multiple StatName objects in *)
(* one contiguous uint8_t array", symbol_table_impl.h).  CodecSpec and     *)
(* RawSpec are callers with one such array, which they fill themselves and *)
(* hand to the codec and the joiner (CodecSpec) or to the table (RawSpec). *)

\* the bytes the caller writes: a final byte, a continuation byte with no
\* payload bits and one with all of them
ByteValues == {1, SpilloverMask, 255}
ByteArrays == UNION { [1 .. n -> ByteValues] : n \in 0 .. MaxRawBytes }

\* the symbols the caller packs: both sides of the one-byte limit and the ends
\* of the range of Symbol
SymbolValues == {0, Low7Bits, Low7Bits + 1, SymbolModulus - 1}
SymbolVecs == UNION { [1 .. n -> SymbolValues] : n \in 0 .. MaxRawSymbols }

\* payload lengths around the second header byte, around half the limit and
\* around the limit
LongSizes ==
    { 255, 256, StatNameMaxSize \div 2 - 1, StatNameMaxSize \div 2,
      StatNameMaxSize - 1, StatNameMaxSize }

\* the caller copies bytes into its array behind the length
\* (saveLengthToBytesReturningNext, then memcpy)
WriteBytes(bytes) ==
    /\ fault = "none"
    /\ UNCHANGED threadvars
    /\ ~Joined
    /\ symbol_array' = moveToStorage(bytes)
    /\ decoded' = <<>>
    /\ UNCHANGED <<tablevars, storage, joiner, lock_acquired, fault>>

\* SymbolEncoding e; e.addSymbol(s) for each s of symbols; e.moveToStorage(symbol_array)
WriteSymbols(symbols) ==
    /\ fault = "none"
    /\ UNCHANGED threadvars
    /\ ~Joined
    /\ symbol_array' = moveToStorage(addSymbols(<<>>, symbols))
    /\ decoded' = <<>>
    /\ UNCHANGED <<tablevars, storage, joiner, lock_acquired, fault>>

\* a SymbolEncoding of n one-byte symbols is moved into the array; the process
\* ends in saveLengthToBytesReturningNext when n does not fit the two size bytes
WriteLong(n) ==
    /\ fault = "none"
    /\ UNCHANGED threadvars
    /\ ~Joined
    /\ IF lengthFits(n)
       THEN /\ symbol_array' = moveToStorage([i \in 1 .. n |-> 1])
            /\ decoded' = <<>>
            /\ fault' = fault
       ELSE /\ fault' = "assert"
            /\ UNCHANGED rawvars
    /\ UNCHANGED <<tablevars, storage, joiner, lock_acquired>>

\* storage[h].statName().copyToStorage(symbol_array): no reference is taken
CopyToArray(h) ==
    /\ fault = "none"
    /\ UNCHANGED threadvars
    /\ ~Joined
    /\ Live(h)
    /\ symbol_array' = copyToStorage(storage[h].bytes)
    /\ decoded' = <<>>
    /\ UNCHANGED <<tablevars, storage, joiner, lock_acquired, fault>>

\* SymbolEncoding::decodeSymbols(data, dataSize) on the StatName in the array
DecodeSymbolsCall ==
    /\ fault = "none"
    /\ UNCHANGED threadvars
    /\ dataSize(symbol_array) <= MaxDecoded
    /\ decoded' = decodeSymbols(data(symbol_array))
    /\ UNCHANGED <<tablevars, storage, joiner, lock_acquired, fault, symbol_array>>

\* table.decode(data, dataSize) on the StatName in the array: the string goes
\* to the caller, the process ends when RELEASE_ASSERT fires
DecodeArray ==
    /\ fault = "none"
    /\ UNCHANGED threadvars
    /\ dataSize(symbol_array) <= MaxDecoded
    /\ fault' = IF decode(Table, symbol_array).ok THEN fault ELSE "no such symbol"
    /\ lock_acquired' = TRUE
    /\ UNCHANGED <<tablevars, storage, joiner, rawvars>>

\* StatNameJoiner(a, a) with a the StatName in the array; the process ends in
\* alloc when the two payloads do not fit the two size bytes
JoinArray ==
    /\ fault = "none"
    /\ UNCHANGED threadvars
    /\ ~Joined
    /\ IF lengthFits(dataSize(symbol_array) + dataSize(symbol_array))
       THEN /\ joiner' = [bytes  |-> StatNameJoiner(symbol_array, symbol_array),
                          inputs |-> <<>>]
            /\ fault' = fault
       ELSE /\ fault' = "assert"
            /\ joiner' = joiner
    /\ lock_acquired' = FALSE
    /\ UNCHANGED <<tablevars, storage, rawvars>>

\* the caller and the codec: arrays are filled, unpacked and joined, the table
\* is not involved
CodecNext ==
    \/ \E bytes \in ByteArrays : WriteBytes(bytes)
    \/ \E symbols \in SymbolVecs : WriteSymbols(symbols)
    \/ \E n \in LongSizes : WriteLong(n)
    \/ DecodeSymbolsCall
    \/ JoinArray
    \/ DestroyJoiner

CodecSpec == Init /\ [][CodecNext]_vars

\* the caller and the table: the array holds symbols the caller packed or a
\* copy of the name in its container, which it may free before decoding the copy
RawNext ==
    \/ \E name \in Names : NewStorage(1, name)
    \/ FreeStorage(1)
    \/ \E symbols \in SymbolVecs : WriteSymbols(symbols)
    \/ CopyToArray(1)
    \/ DecodeArray

RawSpec == Init /\ [][RawNext]_vars

----------------------------------------------------------------------------
(* A table close to the last Symbol.  The caller creates FillCount single-token
   names in a new table and keeps them for as long as the process runs; with
   the two tokens of Names that leaves no value of Symbol for newSymbol to
   stage. *)

FillCount == SymbolModulus - 2

Fill ==
    /\ fault = "none"
    /\ UNCHANGED threadvars
    /\ monotonic_counter_ = 0
    /\ DOMAIN encode_map_ = {}
    /\ LET e == ChurnEncode(Table, 1, FillCount)
       IN  /\ SetTable(e.table)
           /\ fault' = IF e.ok THEN fault ELSE "assert"
    /\ lock_acquired' = TRUE
    /\ UNCHANGED <<storage, joiner>>
    /\ UNCHANGED rawvars

WrapNext ==
    \/ Fill
    \/ \E h \in Slots, name \in Names : NewStorage(h, name)
    \/ \E h \in Slots : FreeStorage(h)

WrapSpec == Init /\ [][WrapNext]_vars

----------------------------------------------------------------------------
(* Properties. *)

\* the symbols of the packed name in slot h
SymbolsOf(h) == decodeSymbols(data(storage[h].bytes))

\* C1: every symbol of a packed name that is still live (created by encode or
\* by a retaining copy, not yet freed) is a key of decode_map_, and the
\* encode_map_ entry of its token has ref_count_ >= 1.
LiveSymbolsAreInterned ==
    \A h \in Slots :
        Live(h) =>
            \A i \in 1 .. Len(SymbolsOf(h)) :
                /\ SymbolsOf(h)[i] \in DOMAIN decode_map_
                /\ decode_map_[SymbolsOf(h)[i]] \in DOMAIN encode_map_
                /\ encode_map_[decode_map_[SymbolsOf(h)[i]]].ref_count_ >= 1

\* a name and its retained copy are live after some token was freed for good
\* and its symbol handed out again
LiveAfterRetainAndFree ==
    /\ pool_ # <<>>
    /\ \E h, g \in Slots :
          /\ h # g
          /\ Live(h) /\ Live(g)
          /\ storage[h].name = <<"a", Dot, Dot, "a">>
          /\ storage[g].name = <<"a", Dot, Dot, "a">>
          /\ encode_map_[<<"a">>].ref_count_ = 4
          /\ encode_map_[<<>>].symbol_ < monotonic_counter_ - 1

\* C2: decoding the packed name encode(s) returned gives back exactly s, right
\* after the encode and for as long as the name is live, whatever else the
\* table has been through.
DecodeOfEncodeIsIdentity ==
    /\ \A h \in Slots :
          Live(h) => decode(Table, storage[h].bytes) = [ok |-> TRUE, str |-> storage[h].name]
    /\ \A s \in Names :
          LET e == encode(Table, s)
          IN  decode(e.table, moveToStorage(e.vec_)) = [ok |-> TRUE, str |-> s]

\* "a..a" is live next to another name and the symbol of "a" takes two bytes
EmptyTokenNameLive ==
    \E h, g \in Slots :
        /\ h # g
        /\ Live(g)
        /\ storage[h].name = <<"a", Dot, Dot, "a">>
        /\ Len(SymbolsOf(h)) = 3
        /\ dataSize(storage[h].bytes) = 5

\* C3: between calls encode_map_ and decode_map_ have the same number of
\* entries and are inverses of each other: decode_map_[id] = str exactly when
\* encode_map_[str].symbol_ = id.
MapsAreInverse ==
    /\ Cardinality(DOMAIN encode_map_) = Cardinality(DOMAIN decode_map_)
    /\ \A id \in DOMAIN decode_map_ :
          /\ decode_map_[id] \in DOMAIN encode_map_
          /\ encode_map_[decode_map_[id]].symbol_ = id
    /\ \A str \in DOMAIN encode_map_ :
          /\ encode_map_[str].symbol_ \in DOMAIN decode_map_
          /\ decode_map_[encode_map_[str].symbol_] = str

\* both tokens interned, one of them on a reused symbol, with freed symbols left
TokensAfterReuse ==
    /\ numSymbols(Table) = 2
    /\ pool_ # <<>>
    /\ \A id \in DOMAIN decode_map_ : id < monotonic_counter_
    /\ \E id \in DOMAIN decode_map_ : id > pool_[Len(pool_)]

\* C4: id 0 is reserved as "unassigned": no token is ever given id 0, the first
\* token interned into a fresh table gets id 1, and every key of decode_map_
\* is >= 1.
NoTokenHasSymbolZero ==
    /\ \A id \in DOMAIN decode_map_ : id >= 1
    /\ \A str \in DOMAIN encode_map_ : encode_map_[str].symbol_ >= 1
    /\ (numSymbols(Table) = 1 /\ pool_ = <<>> /\ monotonic_counter_ = 1)
          => DOMAIN decode_map_ = {1}

\* C5: two packed names of one table that are live together compare equal with
\* operator== exactly when they were encoded from the same string.
EqualIffSameString ==
    /\ \A h, g \in Slots :
          (Live(h) /\ Live(g)) =>
              (StatNameEq(storage[h].bytes, storage[g].bytes)
                  <=> storage[h].name = storage[g].name)
    /\ \A s1, s2 \in Names :
          LET e1 == encode(Table, s1)
              e2 == encode(e1.table, s2)
          IN  StatNameEq(moveToStorage(e1.vec_), moveToStorage(e2.vec_)) <=> s1 = s2

\* two different strings are live with payloads of the same length, one of them
\* holding a two-byte symbol
DifferentNamesOfEqualSize ==
    \E h, g \in Slots :
        /\ Live(h) /\ Live(g)
        /\ storage[h].name # storage[g].name
        /\ dataSize(storage[h].bytes) = dataSize(storage[g].bytes)
        /\ Len(SymbolsOf(h)) < dataSize(storage[h].bytes)

\* number of times symbol occurs in symbols
Occurrences(symbols, symbol) ==
    Cardinality({i \in 1 .. Len(symbols) : symbols[i] = symbol})

\* the symbols freed for good by releasing symbols
FreedBy(symbols) ==
    {y \in Range(symbols) :
        encode_map_[decode_map_[y]].ref_count_ = Occurrences(symbols, y)}

\* C6: a step that frees the packed name in slot h lowers the ref_count_ of
\* each token by its number of occurrences in the name; a token that reaches
\* zero leaves both maps and its symbol is pushed on pool_; a token that stays
\* positive keeps its symbol and its string.
FreeReleasesPerOccurrence ==
    [][\A h \in Slots :
          (Live(h) /\ ~Live(h)') =>
              /\ \A str \in DOMAIN encode_map_ :
                    LET sym == encode_map_[str].symbol_
                        occ == Occurrences(SymbolsOf(h), sym)
                    IN  IF encode_map_[str].ref_count_ = occ
                        THEN /\ str \notin DOMAIN encode_map_'
                             /\ sym \notin DOMAIN decode_map_'
                        ELSE /\ str \in DOMAIN encode_map_'
                             /\ encode_map_'[str] =
                                   [symbol_ |-> sym,
                                    ref_count_ |-> encode_map_[str].ref_count_ - occ]
                             /\ sym \in DOMAIN decode_map_'
                             /\ decode_map_'[sym] = str
              /\ DOMAIN encode_map_' \subseteq DOMAIN encode_map_
              /\ DOMAIN decode_map_' \subseteq DOMAIN decode_map_
              /\ Len(pool_') = Len(pool_) + Cardinality(FreedBy(SymbolsOf(h)))
              /\ SubSeq(pool_', 1, Len(pool_)) = pool_
              /\ {pool_'[i] : i \in Len(pool_) + 1 .. Len(pool_')} = FreedBy(SymbolsOf(h))
              /\ next_symbol_' = next_symbol_
              /\ monotonic_counter_' = monotonic_counter_
              /\ fault' = "none"]_vars

\* "a..a" has been freed while "." stays live: the symbol of "a" is on top of
\* pool_ and the empty token stays with the two references "." holds
FreedBesideSharedToken ==
    \E h, g \in Slots :
        /\ ~Live(g)
        /\ storage[h].name = <<Dot>>
        /\ numSymbols(Table) = 1
        /\ encode_map_[<<>>].ref_count_ = 2
        /\ pool_ # <<>>
        /\ pool_[Len(pool_)] < encode_map_[<<>>].symbol_

\* the ref_count_ of every interned token
RefCounts(T) == [str \in DOMAIN T.encode_map_ |-> T.encode_map_[str].ref_count_]

\* C7: in every reachable table state, encode(s) followed at once by free of
\* the name it returned brings numSymbols() and the ref_count_ of every token
\* back to what they were: tokens nobody else holds are gone again, the others
\* keep their count.
EncodeThenFreeRestores ==
    \A s \in Names :
        LET e == encode(Table, s)
            f == free(e.table, moveToStorage(e.vec_))
        IN  /\ e.ok /\ f.ok
            /\ numSymbols(f.table) = numSymbols(Table)
            /\ RefCounts(f.table) = RefCounts(Table)

\* a table where encoding "a..a" finds one token held by somebody else and
\* interns the other on a reused symbol
SharedAndFreshTokens ==
    /\ <<"a">> \in DOMAIN encode_map_
    /\ <<>> \notin DOMAIN encode_map_
    /\ pool_ # <<>>
    /\ LET e == encode(Table, <<"a", Dot, Dot, "a">>)
       IN  /\ numSymbols(e.table) = numSymbols(Table) + 1
           /\ RefCounts(e.table)[<<"a">>] = RefCounts(Table)[<<"a">>] + 2
           /\ e.table.encode_map_[<<>>].symbol_ = next_symbol_
           /\ next_symbol_ < monotonic_counter_

\* C8: retaining a live packed name p (incRefCount, as the copying constructor
\* of StatNameStorage does) raises the ref_count_ of each token by its number
\* of occurrences in p and changes nothing else: no symbol allocated, the key
\* sets of the maps, pool_, next_symbol_ and monotonic_counter_ as before; the
\* matching free(p) then restores every ref_count_.
RetainCountsPerOccurrence ==
    \A h \in Slots :
        Live(h) =>
            LET p == copyToStorage(storage[h].bytes)
                r == incRefCount(Table, p)
                f == free(r.table, p)
            IN  /\ r.ok /\ f.ok
                /\ DOMAIN r.table.encode_map_ = DOMAIN encode_map_
                /\ \A str \in DOMAIN encode_map_ :
                      r.table.encode_map_[str] =
                          [symbol_    |-> encode_map_[str].symbol_,
                           ref_count_ |-> encode_map_[str].ref_count_
                                            + Occurrences(SymbolsOf(h),
                                                          encode_map_[str].symbol_)]
                /\ r.table.decode_map_ = decode_map_
                /\ r.table.pool_ = pool_
                /\ r.table.next_symbol_ = next_symbol_
                /\ r.table.monotonic_counter_ = monotonic_counter_
                /\ RefCounts(f.table) = RefCounts(Table)
                /\ DOMAIN f.table.decode_map_ = DOMAIN decode_map_

\* "." and its retained copy are live: the empty token, which occurs twice in
\* the name, is counted four times
RepeatedTokenRetained ==
    /\ \A h \in Slots : Live(h) /\ storage[h].name = <<Dot>>
    /\ storage[1].bytes = storage[2].bytes
    /\ encode_map_[<<>>].ref_count_ = 4
    /\ pool_ # <<>>

\* decode(a) + "." + decode(b), or the other string when one of them is empty
Dotted(a, b) == IF a = <<>> THEN b ELSE IF b = <<>> THEN a ELSE a \o <<Dot>> \o b

\* C9: the name a StatNameJoiner holds for two live names a and b decodes to
\* decode(a) + "." + decode(b) when both are non-empty, and to the string of
\* the other one, with no dot added, when one of them is the empty name.
JoinDecodesToDottedPair ==
    (Joined /\ Len(joiner.inputs) = 2) =>
        LET a == storage[joiner.inputs[1]]
            b == storage[joiner.inputs[2]]
        IN  /\ decode(Table, a.bytes).ok /\ decode(Table, b.bytes).ok
            /\ decode(Table, joiner.bytes) =
                  [ok  |-> TRUE,
                   str |-> Dotted(decode(Table, a.bytes).str, decode(Table, b.bytes).str)]

\* the joiner holds "." joined with "a"
JoinedTwoNames ==
    /\ Joined
    /\ Len(joiner.inputs) = 2
    /\ storage[joiner.inputs[1]].name = <<Dot>>
    /\ storage[joiner.inputs[2]].name = <<"a">>
    /\ decode(Table, joiner.bytes).str = <<Dot, Dot, "a">>

\* C10: a step that constructs or destroys a StatNameJoiner (either
\* constructor) does not acquire lock_ and leaves the table as it was: both
\* maps with every ref_count_, pool_, next_symbol_ and monotonic_counter_.
JoinerLeavesTableAlone ==
    [][joiner' # joiner =>
          /\ lock_acquired' = FALSE
          /\ encode_map_' = encode_map_
          /\ decode_map_' = decode_map_
          /\ pool_' = pool_
          /\ next_symbol_' = next_symbol_
          /\ monotonic_counter_' = monotonic_counter_]_vars

\* a joiner exists over a table with live tokens and a non-empty pool_, and the
\* last call took no lock
JoinerBuiltOverBusyTable ==
    /\ Joined
    /\ ~lock_acquired
    /\ numSymbols(Table) >= 2
    /\ pool_ # <<>>
    /\ \E str \in DOMAIN encode_map_ : encode_map_[str].ref_count_ >= 2

\* C11: while every name a joiner was built from stays live, the joined name
\* keeps decoding to the same dotted string across every step other callers
\* take on the table (encode, retain, free of other names), and no step ends
\* in the fatal "no such symbol" check.
JoinedNameStaysDecodable ==
    [][(Joined' /\ \A i \in 1 .. Len(joiner'.inputs) :
                       storage'[joiner'.inputs[i]].bytes # NoBytes) =>
          /\ decode(Table', joiner'.bytes).ok
          /\ joiner' = joiner =>
                decode(Table', joiner.bytes).str = decode(Table, joiner.bytes).str
          /\ fault' # "no such symbol"]_vars

\* a joiner is held while another caller, whose last call took lock_, holds a
\* name sharing tokens with a joined one, after symbols were freed for good
JoinedWhileOthersWork ==
    /\ Joined
    /\ lock_acquired
    /\ pool_ # <<>>
    /\ \E g \in Slots :
          /\ ~Pinned(g)
          /\ Live(g)
          /\ \E i \in 1 .. Len(joiner.inputs) :
                storage[g].name = storage[joiner.inputs[i]].name

\* the tokens encode() interns for a name: none for the empty name, else the
\* pieces between the dots
TokensOf(name) == IF name = <<>> THEN <<>> ELSE StrSplit(name)

\* occurrences of token str in the names held live in slots 1 .. h
RECURSIVE HeldOccurrences(_, _)
HeldOccurrences(h, str) ==
    IF h = 0 THEN 0
    ELSE HeldOccurrences(h - 1, str)
           + (IF Live(h) THEN Occurrences(TokensOf(storage[h].name), str) ELSE 0)

\* the distinct tokens of the names held live
HeldTokens == UNION {Range(TokensOf(storage[h].name)) : h \in {g \in Slots : Live(g)}}

\* C12: however the encodes of several callers interleave, the table holds
\* exactly the distinct tokens of the names encoded and not released, and the
\* ref_count_ of each token is its number of occurrences over all of them.
EncodesCountEveryOccurrence ==
    /\ DOMAIN encode_map_ = HeldTokens
    /\ numSymbols(Table) = Cardinality(HeldTokens)
    /\ \A str \in DOMAIN encode_map_ :
          encode_map_[str].ref_count_ = HeldOccurrences(MaxStorage, str)

\* "a..a" and "a" were encoded by two callers and nothing was ever released:
\* two entries, "a" counted three times
OverlappingNamesEncoded ==
    /\ pool_ = <<>>
    /\ monotonic_counter_ = numSymbols(Table)
    /\ \E h, g \in Slots :
          /\ Live(h) /\ Live(g)
          /\ storage[h].name = <<"a", Dot, Dot, "a">>
          /\ storage[g].name = <<"a">>
    /\ numSymbols(Table) = 2
    /\ encode_map_[<<"a">>].ref_count_ = 3

\* the slots holding an unreleased name
Holders == {h \in Slots : Live(h)}

\* C13: while the callers encode and release one and the same string s, each
\* token of s is absent from the table or has ref_count_ equal to the number
\* of callers holding an unreleased s times its occurrences in s; the table
\* holds the tokens of s while somebody holds it and nothing once all have
\* released.
SameStringEncodeRelease ==
    \A s \in Names :
        (\A h \in Holders : storage[h].name = s) =>
            /\ \A str \in Range(TokensOf(s)) :
                  \/ str \notin DOMAIN encode_map_
                  \/ encode_map_[str].ref_count_ =
                        Cardinality(Holders) * Occurrences(TokensOf(s), str)
            /\ numSymbols(Table) =
                  IF Holders = {} THEN 0 ELSE Cardinality(Range(TokensOf(s)))

\* every caller holds "a..a" after earlier rounds of encode and release: two
\* entries on reused symbols, "a" counted twice per holder
AllHoldSameString ==
    /\ Holders = Slots
    /\ \A h \in Slots : storage[h].name = <<"a", Dot, Dot, "a">>
    /\ numSymbols(Table) = 2
    /\ encode_map_[<<"a">>].ref_count_ = 2 * Cardinality(Slots)
    /\ encode_map_[<<>>].ref_count_ = Cardinality(Slots)
    /\ monotonic_counter_ > 2
    /\ pool_ # <<>>

\* C14: a step that releases the packed name in slot h leaves every other live
\* packed name decoding to the string it was encoded from, shared tokens
\* included; and no step erases a symbol of a packed name that stays live or
\* gives it another string.
FreeKeepsOtherNames ==
    [][/\ \A h \in Slots :
             (Live(h) /\ storage'[h].bytes = NoBytes) =>
                 \A g \in Slots \ {h} :
                     Live(g) =>
                         decode(Table', storage[g].bytes) =
                             [ok |-> TRUE, str |-> storage[g].name]
       /\ \/ decode_map_' = decode_map_
          \/ \A g \in Slots :
                (Live(g) /\ storage'[g] = storage[g]) =>
                    LET symbols == SymbolsOf(g)
                    IN  \A i \in 1 .. Len(symbols) :
                            symbols[i] \in DOMAIN decode_map_ =>
                                /\ symbols[i] \in DOMAIN decode_map_'
                                /\ decode_map_'[symbols[i]] = decode_map_[symbols[i]]]_vars

\* "a" was released while "a..a" stays live: the shared token keeps its symbol
\* with the two references of "a..a", next to symbols freed for good
SharedTokenOutlivesRelease ==
    \E h, g \in Slots :
        /\ ~Live(h)
        /\ Live(g)
        /\ storage[g].name = <<"a", Dot, Dot, "a">>
        /\ encode_map_[<<"a">>].ref_count_ = 2
        /\ pool_ # <<>>
        /\ decode(Table, storage[g].bytes).str = <<"a", Dot, Dot, "a">>

TableEmptyWhenAllFreed ==
    [][DestroyTable =>
          /\ numSymbols(Table) = 0
          /\ DOMAIN decode_map_ = {}
          /\ fault' = "destroyed"]_vars

\* the table was destroyed after names had been created and freed: symbols
\* were handed out and all of them are back in pool_
TableDestroyedAfterUse ==
    /\ fault = "destroyed"
    /\ monotonic_counter_ >= 2
    /\ Len(pool_) = monotonic_counter_

\* C17: a step that constructs a StatNameTempStorage, from a string or from a
\* StatName, and destroys it at the end of its scope leaves the ref_count_ of
\* every token and the size of the table as they were before the construction,
\* and fires no assertion.
TempStorageReleasesOnce ==
    [][\/ /\ RefCounts(Table') = RefCounts(Table)
          /\ numSymbols(Table') = numSymbols(Table)
          /\ fault' = "none"
       \/ ~ \/ \E name \in Names : TempName(name)
            \/ \E src \in Refs : TempCopy(src)]_vars

\* the last call took lock_ and left a table where "a" is held once next to
\* symbols that were handed out and are free again
TempGoneBesideLiveName ==
    /\ lock_acquired
    /\ fault = "none"
    /\ pool_ # <<>>
    /\ numSymbols(Table) = 1
    /\ \E h \in Slots : Live(h) /\ storage[h].name = <<"a">>
    /\ encode_map_[<<"a">>].ref_count_ = 1
    /\ encode_map_[<<"a">>].symbol_ < pool_[Len(pool_)]

\* the token sequence of the name a reference stands for: the tokens of the
\* string a container was encoded from, and for the joiner those of its
\* inputs one after the other
RECURSIVE JoinedTokens(_)
JoinedTokens(inputs) ==
    IF inputs = <<>> THEN <<>>
    ELSE TokensOf(storage[Head(inputs)].name) \o JoinedTokens(Tail(inputs))
RefTokens(ref) ==
    IF ref = 0 THEN JoinedTokens(joiner.inputs) ELSE TokensOf(storage[ref].name)

\* lexicographic order of token sequences, tokens compared as strings
RECURSIVE TokensLess(_, _)
TokensLess(x, y) ==
    IF x = <<>> \/ y = <<>> THEN Len(x) < Len(y)
    ELSE IF Head(x) # Head(y) THEN StrLess(Head(x), Head(y))
    ELSE TokensLess(Tail(x), Tail(y))

\* names handed to lessThan after being encoded into a table that holds
\* nothing any more and hands out its freed symbols again:
\* "a.b", "a.c", "a.b.a" and "b"
ComparedNames ==
    { <<"a", Dot, "b">>, <<"a", Dot, "c">>, <<"a", Dot, "b", Dot, "a">>, <<"b">> }

\* C18: for two live packed names a and b, lessThan(a, b) is the
\* lexicographic comparison of their token sequences with tokens compared as
\* strings: the string comparison at the first position where they differ, else
\* whether a has fewer tokens; lessThan(x, x) is false and no fromSymbol fails.
\* Checked for the names held, and for each pair of ComparedNames encoded into
\* a table that holds nothing and has freed symbols to hand out.
LessThanIsLexicographic ==
    /\ \A a, b \in Refs :
          (Valid(a) /\ Valid(b)) =>
              LET r == lessThan(Table, BytesOf(a), BytesOf(b))
              IN  /\ r.ok
                  /\ r.result = TokensLess(RefTokens(a), RefTokens(b))
                  /\ a = b => ~r.result
    /\ (numSymbols(Table) = 0 /\ pool_ # <<>>) =>
          \A s1, s2 \in ComparedNames :
              LET e1 == encode(Table, s1)
                  e2 == encode(e1.table, s2)
                  r  == lessThan(e2.table, moveToStorage(e1.vec_), moveToStorage(e2.vec_))
              IN  /\ r.ok
                  /\ r.result = TokensLess(TokensOf(s1), TokensOf(s2))
                  /\ r.locked = (\E i \in 1 .. Len(TokensOf(s1)) :
                                    i <= Len(TokensOf(s2)) /\ TokensOf(s1)[i] # TokensOf(s2)[i])

\* "a..a" against the join of "a" with itself: equal at the first token and
\* apart at the second, where the smaller string has the larger symbol
ComparedPastFirstToken ==
    /\ Joined
    /\ \E h, g \in Slots :
          /\ joiner.inputs = <<h, h>>
          /\ storage[h].name = <<"a">>
          /\ Live(g)
          /\ storage[g].name = <<"a", Dot, Dot, "a">>
          /\ lessThan(Table, storage[g].bytes, joiner.bytes) =
                [result |-> TRUE, locked |-> TRUE, ok |-> TRUE]
          /\ ~lessThan(Table, joiner.bytes, storage[g].bytes).result
    /\ encode_map_[<<>>].symbol_ > encode_map_[<<"a">>].symbol_

\* the name made of k occurrences of token: "b.b.b.b.b" for "b" and 5
RECURSIVE Repeated(_, _)
Repeated(token, k) ==
    IF k <= 1 THEN token ELSE token \o <<Dot>> \o Repeated(token, k - 1)

\* C19: encoding a name in which one token occurs k times into a table that
\* does not hold the token adds exactly one entry, with ref_count_ k, and
\* every occurrence is encoded with the same symbol.
RepeatedTokenInternedOnce ==
    \A token \in {<<"b">>}, k \in 1 .. MaxRepeat :
        token \notin DOMAIN encode_map_ =>
            LET e == encode(Table, Repeated(token, k))
            IN  /\ e.ok
                /\ DOMAIN e.table.encode_map_ = DOMAIN encode_map_ \cup {token}
                /\ numSymbols(e.table) = numSymbols(Table) + 1
                /\ e.table.encode_map_[token] =
                      [symbol_ |-> next_symbol_, ref_count_ |-> k]
                /\ \A str \in DOMAIN encode_map_ :
                      e.table.encode_map_[str] = encode_map_[str]
                /\ decodeSymbols(e.vec_) = [i \in 1 .. k |-> next_symbol_]
                /\ {id \in DOMAIN e.table.decode_map_ : e.table.decode_map_[id] = token}
                      = {next_symbol_}

\* a table that holds "a", with freed symbols to hand out: "b.b.b.b.b" gets one
\* entry counted five times on a reused symbol
RepeatedNameOverRecycledTable ==
    /\ DOMAIN encode_map_ = {<<"a">>}
    /\ pool_ # <<>>
    /\ next_symbol_ < monotonic_counter_
    /\ LET e == encode(Table, Repeated(<<"b">>, MaxRepeat))
       IN  /\ e.table.encode_map_[<<"b">>].ref_count_ = MaxRepeat
           /\ Len(decodeSymbols(e.vec_)) = MaxRepeat
           /\ numSymbols(e.table) = 2

\* C20: a step that encodes the empty string yields a packed name with no
\* payload bytes and leaves the table exactly as it was: both maps with every
\* ref_count_, pool_, next_symbol_ and monotonic_counter_; decoding that name
\* gives the empty string and fails no check.
EmptyNameLeavesTableAlone ==
    [][\A h \in Slots :
          NewStorage(h, <<>>) =>
              /\ storage'[h].bytes = <<0, 0>>
              /\ dataSize(storage'[h].bytes) = 0
              /\ encode_map_' = encode_map_
              /\ decode_map_' = decode_map_
              /\ pool_' = pool_
              /\ next_symbol_' = next_symbol_
              /\ monotonic_counter_' = monotonic_counter_
              /\ fault' = "none"
              /\ decode(Table', storage'[h].bytes) = [ok |-> TRUE, str |-> <<>>]]_vars

\* the empty name is held next to a table with live tokens and freed symbols,
\* and the last call took no lock
EmptyNameHeld ==
    /\ ~lock_acquired
    /\ ~Joined
    /\ numSymbols(Table) >= 1
    /\ pool_ # <<>>
    /\ \E h \in Slots :
          /\ Live(h)
          /\ storage[h].name = <<>>
          /\ dataSize(storage[h].bytes) = 0

\* the final byte of a payload has its continuation bit set
FinalByteContinues(bytes) ==
    bytes # <<>> /\ BitAnd(bytes[Len(bytes)], SpilloverMask) # 0

\* C21: decodeSymbols on bytes whose final byte has the continuation bit set
\* fails as a corruption fault: the step ends the process and no SymbolVec
\* comes back for such input.
TruncatedInputIsAFault ==
    [][(DecodeSymbolsCall /\ FinalByteContinues(data(symbol_array))) =>
          /\ fault' # "none"
          /\ decoded' = decoded]_vars

\* some symbol packed in size_and_data_ is not a key of the decode_map_ of T
HasUnknownSymbol(T, size_and_data_) ==
    \E y \in Range(decodeSymbols(data(size_and_data_))) : y \notin DOMAIN T.decode_map_

\* C22: a step that decodes, to a string, a payload holding a symbol that is
\* not a key of decode_map_ ends the process in the "no such symbol" check:
\* no string comes back and the table is what it was.
UnknownSymbolIsFatal ==
    [][(DecodeArray /\ HasUnknownSymbol(Table, symbol_array)) =>
          /\ fault' = "no such symbol"
          /\ encode_map_' = encode_map_
          /\ decode_map_' = decode_map_
          /\ pool_' = pool_
          /\ next_symbol_' = next_symbol_
          /\ monotonic_counter_' = monotonic_counter_]_vars

\* the process ended decoding the copy of a name whose container had been
\* freed: the symbols of the copy are back in pool_
StaleCopyDecoded ==
    /\ fault = "no such symbol"
    /\ ~Live(1)
    /\ dataSize(symbol_array) > 0
    /\ Range(decodeSymbols(data(symbol_array))) \subseteq Range(pool_)

\* the two size bytes of a packed name, low byte first, give the number of
\* bytes that follow them, and that number is below StatNameMaxSize
WellPacked(size_and_data_) ==
    LET length == Len(size_and_data_) - StatNameSizeEncodingBytes
    IN  /\ length >= 0
        /\ length < StatNameMaxSize
        /\ size_and_data_[1] = length % 256
        /\ size_and_data_[2] = length \div 256
        /\ dataSize(size_and_data_) = length

\* C23: every packed name that moveToStorage or the joiner produces has a
\* payload shorter than 65536 bytes and size bytes (low, then high) that
\* dataSize reads back as the payload length; a payload of 65536 bytes or more,
\* asked of moveToStorage or of the joiner, is fatal and produces no name.
PackedLengthFitsSixteenBits ==
    [][/\ WellPacked(symbol_array')
       /\ joiner'.bytes # NoBytes => WellPacked(joiner'.bytes)
       /\ \A n \in LongSizes :
             (n >= StatNameMaxSize /\ WriteLong(n)) =>
                 fault' = "assert" /\ symbol_array' = symbol_array
       /\ (JoinArray /\ 2 * dataSize(symbol_array) >= StatNameMaxSize) =>
             fault' = "assert" /\ joiner' = joiner
       /\ (JoinArray /\ 2 * dataSize(symbol_array) < StatNameMaxSize) =>
             fault' = "none" /\ dataSize(joiner'.bytes) = 2 * dataSize(symbol_array)]_vars

\* the longest name there is was packed, and joining it to itself was fatal
LongestNameJoinRefused ==
    /\ fault = "assert"
    /\ dataSize(symbol_array) = StatNameMaxSize - 1
    /\ Len(symbol_array) = StatNameMaxSize + 1
    /\ ~Joined

\* C24: the token codec round-trips: decodeSymbols of the bytes addSymbol
\* wrote for a sequence of symbols, each in the range of Symbol, is that
\* sequence; a symbol below 128 takes one byte, a symbol from 128 to 16383
\* takes two.
CodecRoundTrips ==
    [][\A symbols \in SymbolVecs :
          WriteSymbols(symbols) =>
              /\ decodeSymbols(data(symbol_array')) = symbols
              /\ dataSize(symbol_array') =
                     Len(symbols) + Cardinality({i \in DOMAIN symbols : symbols[i] >= 128})
              /\ \A symbol \in {0, 1, Low7Bits} : Len(addSymbol(<<>>, symbol)) = 1
              /\ \A symbol \in {128, 129, 255, 256, 16383} : Len(addSymbol(<<>>, symbol)) = 2
              /\ Len(addSymbol(<<>>, 16384)) = 3]_vars

\* a two-byte symbol and a one-byte symbol were written and read back
BothSidesOfBoundaryDecoded ==
    /\ symbol_array = <<3, 0, 128, 1, Low7Bits>>
    /\ decoded = <<Low7Bits + 1, Low7Bits>>
    /\ fault = "none"

\* C25: once a string was encoded and the last reference to each of its tokens
\* is released, encoding the string again, straight away or after another
\* name took symbols in between, gives a packed name that decodes to the
\* string and equals a second encoding made while the first is live, on
\* whichever symbols its tokens land.
ReencodeAfterReleaseRoundTrips ==
    [][\A h \in Slots :
          \/ ~(Live(h) /\ ~Live(h)' /\ fault' = "none")
          \/ storage[h].name = <<>>
          \/ Range(TokensOf(storage[h].name)) \cap DOMAIN encode_map_' # {}
          \/ \A other \in Names :
              \A mid \in {encode(Table', other)} :
              \A e2 \in {encode(mid.table, storage[h].name)} :
              \A e3 \in {encode(e2.table, storage[h].name)} :
              \A p2 \in {moveToStorage(e2.vec_)} :
              \A p3 \in {moveToStorage(e3.vec_)} :
                  /\ mid.ok /\ e2.ok /\ e3.ok
                  /\ decode(e3.table, p2) = [ok |-> TRUE, str |-> storage[h].name]
                  /\ StatNameEq(p2, p3)
                  /\ StatNameEq(p2, moveToStorage(mid.vec_)) <=> other = storage[h].name]_vars

\* "a..a" is held twice, after earlier names were released, on symbols other
\* than the ones a first encoding in a new table gives
ReencodedOnOtherSymbols ==
    /\ fault = "none"
    /\ pool_ # <<>>
    /\ \A h \in Slots : Live(h) /\ storage[h].name = <<"a", Dot, Dot, "a">>
    /\ storage[1].bytes = storage[2].bytes
    /\ storage[1].bytes # moveToStorage(encode(SymbolTableCtor, <<"a", Dot, Dot, "a">>).vec_)

\* C26 as stated: between calls next_symbol_ is the top of pool_ when pool_ is
\* not empty and monotonic_counter_ + 1 when it is empty.
NextSymbolIsPoolTopOrCounterPlusOne ==
    IF pool_ # <<>>
    THEN next_symbol_ = pool_[Len(pool_)]
    ELSE next_symbol_ = monotonic_counter_ + 1

\* the symbols waiting on pool_
PoolSymbols == {pool_[i] : i \in DOMAIN pool_}

\* C26: between calls next_symbol_ is the symbol newSymbol took out for the
\* next insertion: it is no key of decode_map_ and no longer on pool_, and it
\* is one of the symbols 0 .. monotonic_counter_; those symbols are, each
\* exactly once, a key of decode_map_, an element of pool_ or next_symbol_.
StagedSymbolIsSpare ==
    /\ next_symbol_ \notin DOMAIN decode_map_
    /\ next_symbol_ \notin PoolSymbols
    /\ PoolSymbols \cap DOMAIN decode_map_ = {}
    /\ Cardinality(PoolSymbols) = Len(pool_)
    /\ DOMAIN decode_map_ \cup PoolSymbols \cup {next_symbol_} = 0 .. monotonic_counter_

\* a token is live, a freed symbol is on top of pool_, and next_symbol_ is
\* neither that symbol nor monotonic_counter_ + 1
StagedBeforeLastFree ==
    /\ fault = "none"
    /\ pool_ # <<>>
    /\ numSymbols(Table) > 0
    /\ next_symbol_ # pool_[Len(pool_)]
    /\ next_symbol_ # monotonic_counter_ + 1

\* C27 as stated: a token interned while pool_ is not empty receives the
\* symbol freed last, the top of pool_.
NewTokenGetsPoolTop ==
    pool_ # <<>> => toSymbol(Table, <<"x">>).result = pool_[Len(pool_)]

\* C27: freed symbols are reused last in, first out, one insertion late: a
\* new token receives next_symbol_, staged by the insertion before it, and
\* the insertion stages the top of pool_; so the second new token receives
\* the symbol freed last, the third the one freed before that, and with
\* pool_ used up the counter supplies the next.
PoolReusedLastInFirstOut ==
    \A r1 \in {toSymbol(Table, <<"x">>)} :
    \A r2 \in {toSymbol(r1.table, <<"y">>)} :
    \A r3 \in {toSymbol(r2.table, <<"z">>)} :
        /\ r1.ok /\ r2.ok /\ r3.ok
        /\ r1.result = next_symbol_
        /\ r2.result = IF pool_ # <<>> THEN pool_[Len(pool_)] ELSE monotonic_counter_ + 1
        /\ r3.result = IF Len(pool_) >= 2 THEN pool_[Len(pool_) - 1]
                        ELSE monotonic_counter_ + 2 - Len(pool_)
        /\ r1.result \notin PoolSymbols

\* symbol 0 was handed out and freed, and the token interned after that sits
\* on symbol 1, staged before the free; symbol 0 is staged for the next one
InternedOnStagedSymbol ==
    /\ fault = "none"
    /\ DOMAIN decode_map_ = {1}
    /\ monotonic_counter_ = 1
    /\ next_symbol_ = 0
    /\ pool_ = <<>>

\* C28: monotonic_counter_ never decreases while the process runs; the step
\* that would take it from the largest Symbol round to zero ends in
\* newSymbol's check, so no symbol is handed to two tokens by a counter that
\* wrapped.
CounterNeverWraps ==
    [][/\ monotonic_counter_' >= monotonic_counter_ \/ fault' = "assert"
       /\ fault' = "none" =>
             Cardinality(DOMAIN decode_map_') = Cardinality(DOMAIN encode_map_')
       /\ \A h \in Slots, name \in Names :
             \/ monotonic_counter_ # SymbolModulus - 1
             \/ pool_ # <<>>
             \/ Range(TokensOf(name)) \subseteq DOMAIN encode_map_
             \/ ~NewStorage(h, name)
             \/ fault' = "assert"]_vars

\* every value of Symbol is the symbol of a token and the process has ended
\* in newSymbol's check
EverySymbolInUse ==
    /\ fault = "assert"
    /\ monotonic_counter_ = 0
    /\ Cardinality(DOMAIN decode_map_) = SymbolModulus
    /\ Cardinality(DOMAIN encode_map_) = SymbolModulus

\* C29: monotonic_counter_ advances only at an insertion that finds pool_
\* empty.  A constructor step that interns k new tokens takes
\* min(k, Len(pool_)) symbols off pool_ and advances the counter by the rest:
\* with one new token and pool_ not empty the counter stays and pool_ is one
\* shorter.  No step moves the counter while pool_ holds more symbols than
\* the step has tokens to intern.
CounterAdvancesOnEmptyPool ==
    [][/\ \A h \in Slots, name \in Names :
             \/ ~(~Live(h) /\ Live(h)' /\ storage'[h].name = name)
             \/ ~NewStorage(h, name)
             \/ fault' # "none"
             \/ LET k == Cardinality(Range(TokensOf(name)) \ DOMAIN encode_map_)
                     n == Len(pool_)
                 IN  /\ monotonic_counter_' = monotonic_counter_ + (IF k > n THEN k - n ELSE 0)
                     /\ Len(pool_') = IF k > n THEN 0 ELSE n - k
                     /\ pool_' = SubSeq(pool_, 1, Len(pool_'))
       /\ \/ monotonic_counter_' = monotonic_counter_
          \/ pool_ = <<>>
          \/ Len(pool_) = 1 /\ DOMAIN encode_map_ = {}]_vars

\* symbols 0 and 1 were freed and a token interned after that: it sits on the
\* staged symbol 2, symbol 1 left pool_ to be staged, the counter is still 2
InternedWithoutCounting ==
    /\ fault = "none"
    /\ DOMAIN decode_map_ = {2}
    /\ pool_ = <<0>>
    /\ next_symbol_ = 1
    /\ monotonic_counter_ = 2

\* where a symbol is in a table with the keys live of decode_map_, the symbols
\* freed on pool_ and next_symbol_ staged by newSymbol for the next insertion
IdState(live, freed, staged, id) ==
    IF id \in live THEN "live"
    ELSE IF id \in freed THEN "freed"
    ELSE IF id = staged THEN "staged"
    ELSE "unassigned"

\* the last symbols of pool
PoolTail(pool) == {pool[i] : i \in DOMAIN pool \cap (Len(pool) - 2 .. Len(pool))}

ReadersLeaveTableAlone ==
    [][\/ /\ encode_map_' = encode_map_
          /\ decode_map_' = decode_map_
          /\ pool_' = pool_
          /\ next_symbol_' = next_symbol_
          /\ monotonic_counter_' = monotonic_counter_
       \/ storage' # storage
       \/ ~(\/ \E src \in Refs : ToStringCall(src)
            \/ \E a \in Refs, b \in Slots : LessThanCall(a, b)
            \/ DestroyTable)]_vars

\* the size of a table that had interned and released tokens was read, under
\* lock_, by its destructor
SizeReadAfterUse ==
    /\ fault = "destroyed"
    /\ lock_acquired
    /\ monotonic_counter_ >= 2
    /\ Len(pool_) = monotonic_counter_
    /\ numSymbols(Table) = 0

\* a payload of whole symbols: empty, or ending on a byte without SpilloverMask
WholeSymbols(bytes) == ~FinalByteContinues(bytes)

\* C33: the codec is self-delimiting: for payloads x and y of whole symbols,
\* decodeSymbols of x followed by y is decodeSymbols(x) followed by
\* decodeSymbols(y).  x and y are the payloads of the array before and after
\* a step; a joiner built from the array holds x followed by x.
DecodeOfConcatenation ==
    [][\A x \in {data(symbol_array)}, y \in {data(symbol_array')} :
          /\ (/\ Len(x) <= MaxDecoded /\ Len(y) <= MaxDecoded
              /\ WholeSymbols(x) /\ WholeSymbols(y)) =>
                 decodeSymbols(x \o y) = decodeSymbols(x) \o decodeSymbols(y)
          /\ (/\ 2 * Len(x) <= MaxDecoded
              /\ WholeSymbols(x)
              /\ JoinArray) =>
                 decodeSymbols(data(joiner'.bytes)) = decodeSymbols(x) \o decodeSymbols(x)]_vars

\* the joiner holds a two-byte symbol twice
TwoByteSymbolJoinedTwice ==
    /\ fault = "none"
    /\ symbol_array = <<2, 0, SpilloverMask, 1>>
    /\ joiner.bytes = <<4, 0, SpilloverMask, 1, SpilloverMask, 1>>

\* occurrences of symbol in the bytes of the containers that hold a name
OwnedOccurrences(symbol) ==
    LET occ[h \in 0 .. MaxStorage] ==
            IF h = 0 THEN 0
            ELSE occ[h - 1] + (IF Live(h) THEN Occurrences(SymbolsOf(h), symbol) ELSE 0)
    IN  occ[MaxStorage]

\* C35: between calls the ref_count_ stored for a token is the number of times
\* its symbol occurs in the bytes of all containers that hold a name, made by
\* encode or by a retaining copy and not yet freed; no entry has ref_count_ 0.
RefCountIsOwnedOccurrences ==
    \A str \in DOMAIN encode_map_ :
        /\ encode_map_[str].ref_count_ >= 1
        /\ encode_map_[str].ref_count_ = OwnedOccurrences(encode_map_[str].symbol_)

\* a name and its retained copy are held after other tokens were released:
\* the token that occurs twice in each is counted four times
CopyCountedPerOccurrence ==
    /\ fault = "none"
    /\ pool_ # <<>>
    /\ Live(1) /\ Live(2)
    /\ storage[1].bytes = storage[2].bytes
    /\ \E str \in DOMAIN encode_map_ : encode_map_[str].ref_count_ = 4

\* C36: between calls the keys of decode_map_, the symbols on pool_ and
\* next_symbol_ are disjoint from one another, pool_ holds no symbol twice,
\* together they are the symbols 0 .. monotonic_counter_, and so the number
\* of live symbols plus the size of pool_ is monotonic_counter_.
SymbolsPartitionCounterRange ==
    \A live \in {DOMAIN decode_map_}, freed \in {PoolSymbols} :
        /\ live \cap freed = {}
        /\ next_symbol_ \notin live \cup freed
        /\ Cardinality(freed) = Len(pool_)
        /\ live \cup freed \cup {next_symbol_} = 0 .. monotonic_counter_
        /\ Cardinality(live) + Len(pool_) = monotonic_counter_
        /\ numSymbols(Table) = Cardinality(live)

\* two symbols are live, more than two wait on pool_, and the staged symbol
\* came from pool_
LivePooledAndStaged ==
    /\ fault = "none"
    /\ numSymbols(Table) = 2
    /\ Len(pool_) > 2
    /\ next_symbol_ < monotonic_counter_

\* the first token of name, in the order of the name, that T has not interned
FirstNewToken(T, name) ==
    LET tokens == TokensOf(name)
        new    == {i \in DOMAIN tokens : tokens[i] \notin DOMAIN T.encode_map_}
    IN  tokens[CHOOSE i \in new : \A j \in new : i <= j]

\* C37: a newly interned token receives the next_symbol_ that the insertion
\* before it (or the constructor) staged.  A constructor step gives its first
\* new token the next_symbol_ the step found; after a step that frees a
\* container and pushes symbols on pool_, next_symbol_ is what it was, the
\* next insertion receives it and not a symbol just pushed, and the insertion
\* after that receives the symbol pushed last.
NewTokenGetsStagedSymbol ==
    [][\A h \in Slots :
          /\ \/ ~(~Live(h) /\ Live(h)' /\ fault' = "none")
             \/ DOMAIN encode_map_' \subseteq DOMAIN encode_map_
             \/ encode_map_'[FirstNewToken(Table, storage'[h].name)].symbol_ = next_symbol_
          /\ \/ ~(Live(h) /\ ~Live(h)' /\ fault' = "none")
             \/ Len(pool_') <= Len(pool_)
             \/ \A r1 \in {toSymbol(Table', <<"x">>)} :
                \A r2 \in {toSymbol(r1.table, <<"y">>)} :
                    /\ next_symbol_' = next_symbol_
                    /\ r1.result = next_symbol_
                    /\ \A i \in Len(pool_) + 1 .. Len(pool_') : pool_'[i] # r1.result
                    /\ r2.result = pool_'[Len(pool_')]]_vars

\* "." was freed while "a" was held and then encoded again: its token sits on
\* symbol 2, staged before the free, and the freed symbol 1 is staged now
ReinternedPastFreedSymbol ==
    /\ fault = "none"
    /\ DOMAIN decode_map_ = {0, 2}
    /\ decode_map_[0] = <<"a">>
    /\ decode_map_[2] = <<>>
    /\ next_symbol_ = 1
    /\ pool_ = <<>>
    /\ monotonic_counter_ = 2

\* lt holds <<i, j, r>> when a comparator answers r for the i-th and the j-th
\* of a list of names: irreflexive, asymmetric, transitive, and deciding every
\* pair of names whose bytes differ one way or the other
StrictTotalOrder(names, lt) ==
    \A i, j \in DOMAIN names :
        /\ <<i, i, TRUE>> \notin lt
        /\ ~(<<i, j, TRUE>> \in lt /\ <<j, i, TRUE>> \in lt)
        /\ names[i] # names[j] => (<<i, j, TRUE>> \in lt \/ <<j, i, TRUE>> \in lt)
        /\ \A k \in DOMAIN names :
              (<<i, j, TRUE>> \in lt /\ <<j, k, TRUE>> \in lt) => <<i, k, TRUE>> \in lt

\* the answers of lessThan over T for every pair of names
LessThanPairs(T, names) ==
    {<<i, j, lessThan(T, names[i], names[j]).result>> : i \in DOMAIN names, j \in DOMAIN names}

\* the names the caller can compare: the containers that hold one and the joiner
ValidNames == [i \in 1 .. MaxStorage + 1 |->
                  IF i <= MaxStorage
                  THEN (IF Live(i) THEN storage[i].bytes ELSE moveToStorage(<<>>))
                  ELSE (IF Joined THEN joiner.bytes ELSE moveToStorage(<<>>))]

\* lessThan orders ComparedNames encoded one after the other into T
ComparedNamesOrdered(T) ==
    \A e1 \in {encode(T, <<"a", Dot, "b">>)} :
    \A e2 \in {encode(e1.table, <<"a", Dot, "c">>)} :
    \A e3 \in {encode(e2.table, <<"a", Dot, "b", Dot, "a">>)} :
    \A e4 \in {encode(e3.table, <<"b">>)} :
    \A held \in {<<moveToStorage(e1.vec_), moveToStorage(e2.vec_),
                    moveToStorage(e3.vec_), moveToStorage(e4.vec_)>>} :
    \A lt \in {LessThanPairs(e4.table, held)} :
        StrictTotalOrder(held, lt)

\* C38: over names that are live together in one table lessThan is a strict
\* total order: never true of a name and itself, never true both ways, true
\* one way for names whose bytes differ, and transitive; its answer for two
\* names that stay live is the same before and after a step that encodes or
\* releases other names.  Checked for the names held and the joined name
\* whenever a step changed any of them or the tokens of the table, and for
\* ComparedNames encoded together whenever a step emptied the table.
LessThanIsStrictTotalOrder ==
    [][/\ \/ (storage' = storage /\ joiner' = joiner /\ decode_map_' = decode_map_)
          \/ \A names \in {ValidNames'}, old \in {ValidNames} :
                \A lt \in {LessThanPairs(Table', names)} :
                    /\ StrictTotalOrder(names, lt)
                    /\ decode_map_' # decode_map_ =>
                          \A i, j \in DOMAIN names :
                              (/\ i # j
                               /\ old[i] = names[i] /\ old[j] = names[j]
                               /\ (i <= MaxStorage => Live(i))
                               /\ (j <= MaxStorage => Live(j))
                               /\ (i > MaxStorage \/ j > MaxStorage => Joined)) =>
                                  <<i, j, lessThan(Table, names[i], names[j]).result>> \in lt
       /\ (DOMAIN encode_map_ # {} /\ DOMAIN encode_map_' = {}) =>
             ComparedNamesOrdered(Table')]_vars

\* two different names are held and the joiner holds a third
ThreeNamesToSort ==
    /\ fault = "none"
    /\ Joined
    /\ Live(1) /\ Live(2)
    /\ storage[1].bytes # storage[2].bytes
    /\ joiner.bytes # storage[1].bytes
    /\ joiner.bytes # storage[2].bytes
    /\ dataSize(joiner.bytes) > 0
    /\ pool_ # <<>>

\* the packed names the caller can join: those held, the joined one, and the
\* empty name
JoinableNames ==
    {BytesOf(ref) : ref \in {r \in Refs : Valid(r)}} \cup {moveToStorage(<<>>)}

\* C39: joining is associative and the two constructors agree: for names a, b
\* and c that are live, joining the join of a and b with c, joining a with the
\* join of b and c, and the vector constructor on <<a, b, c>> give the same
\* bytes; the vector constructor on <<a, b>> gives the bytes of the join of a
\* and b; and joining a name with the empty packed name, on either side,
\* gives the bytes of that name.
JoinIsAssociative ==
    \A names \in {JoinableNames} :
        \A a, b \in names :
            \A ab \in {StatNameJoiner(a, b)} :
                /\ StatNameJoinerVec(<<a, b>>) = ab
                /\ b = moveToStorage(<<>>) =>
                      /\ ab = a
                      /\ data(ab) = data(a)
                      /\ StatNameJoiner(b, a) = a
                /\ \A c \in names :
                      \A abc \in {StatNameJoiner(ab, c)} :
                          /\ abc = StatNameJoiner(a, StatNameJoiner(b, c))
                          /\ abc = StatNameJoinerVec(<<a, b, c>>)

\* two names are held whose join depends on the order, and the joiner holds
\* their join
JoinedInOrder ==
    /\ fault = "none"
    /\ Live(1) /\ Live(2)
    /\ joiner.inputs = <<1, 2>>
    /\ joiner.bytes = StatNameJoinerVec(<<storage[1].bytes, storage[2].bytes>>)
    /\ joiner.bytes # StatNameJoiner(storage[2].bytes, storage[1].bytes)
    /\ dataSize(storage[1].bytes) > 1

----------------------------------------------------------------------------
(* Threads.  The threads make MaxOps calls of SymbolTable methods between
   them, each thread one call after the other on the name it keeps in
   storage[t]: it encodes a name into its
   container, retains it for a copy, releases one of the containers that
   hold it, decodes it, compares it with the name of another thread, or asks
   for the size of the table.  A call is split where the source splits it:
   the work before Thread::LockGuard is built, taking lock_, every iteration
   of the loop inside the critical section, and the end of the scope together
   with the work after it.  A name handed to lessThan is kept by its owner
   until the call returns ("the caller must keep the backing store alive",
   symbol_table_impl.h). *)

\* the first index at which the loop of lessThan finds different symbols, 0
\* when it finds none
FirstDifference(av, bv) ==
    LET n == IF Len(av) < Len(bv) THEN Len(av) ELSE Len(bv)
        differ == {i \in 1 .. n : av[i] # bv[i]}
    IN  IF differ = {} THEN 0 ELSE CHOOSE j \in differ : \A k \in differ : j <= k

\* whether the call builds a LockGuard: encode returns early on the empty
\* name, lessThan locks at the first difference only
TakesLock(th) ==
    CASE th.op = "encode" -> th.name # <<>>
      [] th.op = "lessThan" -> th.symbols # <<>>
      [] OTHER -> TRUE

\* whether the loop inside the critical section is through
LoopDone(th) ==
    CASE th.op = "encode" -> th.tokens = <<>>
      [] th.op = "numSymbols" -> th.done = 1
      [] OTHER -> th.symbols = <<>>

\* the name of thread t is an argument of a lessThan another thread is in
Compared(t) == \E u \in Threads : threads[u].op = "lessThan" /\ threads[u].other = t

\* the calls the threads have made
CallsMade ==
    LET sum[t \in 0 .. MaxStorage] == IF t = 0 THEN 0 ELSE sum[t - 1] + threads[t].calls
    IN  sum[MaxStorage]

\* thread t enters a method with the locals th
Enter(t, th) ==
    /\ fault = "none"
    /\ threads[t].pc = "idle"
    /\ CallsMade < MaxOps
    /\ threads' = [threads EXCEPT ![t] = [th EXCEPT !.pc = "entered", !.calls = @ + 1]]
    /\ UNCHANGED <<tablevars, storage, joiner, lock_acquired, fault, rawvars, lock_>>

\* StatNameStorage(name, table): encode up to the LockGuard, StrSplit done
CallEncode(t, name) ==
    /\ ~Live(t)
    /\ Enter(t, [threads[t] EXCEPT !.op = "encode", !.name = name,
                                    !.tokens = IF name = <<>> THEN <<>> ELSE StrSplit(name)])

\* StatNameStorage::free(table): free up to the LockGuard, decodeSymbols done
CallFree(t) ==
    /\ Live(t)
    /\ ~Compared(t)
    /\ Enter(t, [threads[t] EXCEPT !.op = "free",
                                    !.symbols = decodeSymbols(data(storage[t].bytes))])

\* StatNameStorage(storage[t].statName(), table): incRefCount up to the LockGuard
CallIncRefCount(t) ==
    /\ Live(t)
    /\ Enter(t, [threads[t] EXCEPT !.op = "incRefCount",
                                    !.symbols = decodeSymbols(data(storage[t].bytes))])

\* storage[t].statName().toString(table): decode up to the LockGuard
CallDecode(t) ==
    /\ Live(t)
    /\ Enter(t, [threads[t] EXCEPT !.op = "decode",
                                    !.symbols = decodeSymbols(data(storage[t].bytes))])

\* table.lessThan(storage[t].statName(), storage[u].statName()) up to the
\* LockGuard: both names decoded, the loop run to the first difference
CallLessThan(t, u) ==
    /\ u # t
    /\ Live(t) /\ Live(u)
    /\ threads[u].op # "free"
    /\ LET av == decodeSymbols(data(storage[t].bytes))
           bv == decodeSymbols(data(storage[u].bytes))
           i  == FirstDifference(av, bv)
       IN  Enter(t, [threads[t] EXCEPT !.op = "lessThan", !.other = u,
                                       !.symbols = IF i = 0 THEN <<>> ELSE <<av[i], bv[i]>>])

\* table.numSymbols() up to the LockGuard
CallNumSymbols(t) ==
    Enter(t, [threads[t] EXCEPT !.op = "numSymbols"])

\* Thread::LockGuard lock(lock_)
Lock(t) ==
    /\ fault = "none"
    /\ threads[t].pc = "entered"
    /\ TakesLock(threads[t])
    /\ lock_ = 0
    /\ lock_' = t
    /\ threads' = [threads EXCEPT ![t].pc = "locked"]
    /\ UNCHANGED <<tablevars, storage, joiner, lock_acquired, fault, rawvars>>

\* one iteration of the loop of the method thread t is in (the two lookups of
\* lessThan, the two sizes of numSymbols), after which the thread is at
\* position pc with lock_ held by holder
Iteration(t, pc, holder) ==
    /\ fault = "none"
    /\ threads[t].pc = "locked"
    /\ ~LoopDone(threads[t])
    /\ lock_' = holder
    /\ LET th == threads[t]
           next == [th EXCEPT !.pc = pc, !.done = @ + 1]
       IN  CASE th.op = "encode" ->
                  LET r == toSymbol(Table, Head(th.tokens))
                  IN  /\ SetTable(r.table)
                      /\ fault' = IF r.ok THEN fault ELSE "assert"
                      /\ threads' = [threads EXCEPT ![t] =
                                        [next EXCEPT !.tokens = Tail(@),
                                                     !.symbols = Append(@, r.result)]]
              [] th.op = "incRefCount" ->
                  LET r == incRefCountLoop(Table, <<Head(th.symbols)>>)
                  IN  /\ SetTable(r.table)
                      /\ fault' = IF r.ok THEN fault ELSE "assert"
                      /\ threads' = [threads EXCEPT ![t] = [next EXCEPT !.symbols = Tail(@)]]
              [] th.op = "free" ->
                  LET r == freeLoop(Table, <<Head(th.symbols)>>)
                  IN  /\ SetTable(r.table)
                      /\ fault' = IF r.ok THEN fault ELSE "assert"
                      /\ threads' = [threads EXCEPT ![t] = [next EXCEPT !.symbols = Tail(@)]]
              [] th.op = "decode" ->
                  /\ UNCHANGED tablevars
                  /\ IF Head(th.symbols) \in DOMAIN decode_map_
                     THEN /\ fault' = fault
                          /\ threads' = [threads EXCEPT ![t] =
                                [next EXCEPT !.symbols = Tail(@),
                                             !.tokens = Append(@, decode_map_[Head(th.symbols)])]]
                     ELSE /\ fault' = "no such symbol"
                          /\ threads' = [threads EXCEPT ![t] = next]
              [] th.op = "lessThan" ->
                  /\ UNCHANGED tablevars
                  /\ fault' = IF \A i \in 1 .. 2 : th.symbols[i] \in DOMAIN decode_map_
                              THEN fault ELSE "no such symbol"
                  /\ threads' = [threads EXCEPT ![t] = [next EXCEPT !.symbols = <<>>]]
              [] th.op = "numSymbols" ->
                  /\ UNCHANGED tablevars
                  /\ fault' = IF Cardinality(DOMAIN encode_map_) = Cardinality(DOMAIN decode_map_)
                              THEN fault ELSE "assert"
                  /\ threads' = [threads EXCEPT ![t] = next]
    /\ UNCHANGED <<storage, joiner, lock_acquired, rawvars>>

\* an iteration that ends the critical section, so that the loop takes lock_
\* once for every token
StepUnlocking(t) == Iteration(t, "entered", 0)

Step(t) == Iteration(t, "locked", t)

\* the method thread t is in returns: the LockGuard, when one was built, goes
\* out of scope leaving lock_ with holder; encode hands the packed symbols to
\* the container, free is followed by bytes_.reset() of the container
Finish(t, holder) ==
    /\ fault = "none"
    /\ \/ threads[t].pc = "entered" /\ ~TakesLock(threads[t])
       \/ threads[t].pc = "locked" /\ LoopDone(threads[t])
    /\ lock_' = IF threads[t].pc = "locked" THEN holder ELSE lock_
    /\ LET th == threads[t]
           held == CASE th.op = "encode" -> 1
                     [] th.op = "incRefCount" -> th.held + 1
                     [] th.op = "free" -> th.held - 1
                     [] OTHER -> th.held
       IN  /\ threads' = [threads EXCEPT ![t] =
                             [IdleThread EXCEPT !.held = held, !.calls = th.calls]]
           /\ storage' =
                 CASE th.op = "encode" ->
                        [storage EXCEPT ![t] =
                            [bytes |-> moveToStorage(addSymbols(<<>>, th.symbols)),
                             name  |-> th.name]]
                   [] th.op = "free" /\ held = 0 -> [storage EXCEPT ![t] = NoStorage]
                   [] OTHER -> storage
    /\ UNCHANGED <<tablevars, joiner, lock_acquired, fault, rawvars>>

\* a return that leaves lock_ with the thread
ReturnHolding(t) == Finish(t, t)

Return(t) == Finish(t, 0)

ThreadNext ==
    \/ \E t \in Threads, name \in Names : CallEncode(t, name)
    \/ \E t \in Threads : CallFree(t)
    \/ \E t \in Threads : CallIncRefCount(t)
    \/ \E t \in Threads : CallDecode(t)
    \/ \E t, u \in Threads : CallLessThan(t, u)
    \/ \E t \in Threads : CallNumSymbols(t)
    \/ \E t \in Threads : Lock(t)
    \/ \E t \in Threads : Step(t)
    \/ \E t \in Threads : Return(t)

ThreadSpec == Init /\ [][ThreadNext]_vars

\* every thread that can take lock_, run an iteration or return, does so in
\* the end
ThreadFairSpec ==
    /\ ThreadSpec
    /\ \A t \in Threads : WF_vars(Lock(t)) /\ WF_vars(Step(t)) /\ WF_vars(Return(t))

----------------------------------------------------------------------------
(* The lock. *)

\* thread t runs an iteration of the loop of its method in this step: a lookup
\* in, or an update of, the guarded members
AccessBy(t) == threads'[t].done = threads[t].done + 1

\* the methods whose loop updates the maps
Updating == {"encode", "incRefCount", "free"}

\* a call that has applied the update of some but not all tokens of its name
PartlyApplied(th) == th.op \in Updating /\ th.done > 0 /\ ~LoopDone(th)

\* C31: every lookup in and every update of the two maps, pool_ and
\* next_symbol_ made by encode, free, incRefCount, decode, lessThan and
\* numSymbols is made by the thread that holds lock_, and encode, free and
\* incRefCount apply the updates for all tokens of their name in one critical
\* section: a step changes these members only as an iteration of an updating
\* method, the thread running an iteration holds lock_ before and after it,
\* a thread whose name is partly interned or partly released holds lock_, and
\* no thread runs an iteration while the name of another is partly applied.
TableAccessesAreLocked ==
    [][/\ \A t \in Threads :
             AccessBy(t) =>
                 /\ lock_ = t /\ lock_' = t
                 /\ \A u \in Threads \ {t} : ~PartlyApplied(threads[u])
       /\ <<encode_map_, decode_map_, pool_, next_symbol_>>' #
             <<encode_map_, decode_map_, pool_, next_symbol_>> =>
                 \E t \in Threads : AccessBy(t) /\ threads[t].op \in Updating
       /\ \A t \in Threads : PartlyApplied(threads'[t]) => lock_' = t]_vars

\* a thread has interned the first token of a.<empty>.a and holds lock_ while
\* another thread waits in a call on its own name
WaitingOnPartlyInterned ==
    /\ fault = "none"
    /\ \E t, u \in Threads :
          /\ t # u
          /\ threads[t].op = "encode"
          /\ threads[t].name = <<"a", Dot, Dot, "a">>
          /\ threads[t].done = 1
          /\ lock_ = t
          /\ threads[u].pc = "entered"
          /\ threads[u].op \in {"decode", "free", "incRefCount", "numSymbols"}

\* C34: a call of encode, decode, incRefCount, free, lessThan or numSymbols
\* takes lock_ at most once, only when no thread holds it, and has released it
\* when it returns; so when the threads make finitely many calls and every
\* thread that can move is scheduled in the end, every call returns or the
\* process ends in a fatal check, and no state is reached in which a call is
\* open and no thread can move.
CallsTakeLockOnceAndReturn ==
    /\ [][\A t \in Threads :
             (lock_' = t /\ lock_ # t) =>
                 /\ lock_ = 0
                 /\ threads[t].pc = "entered"
                 /\ threads[t].done = 0]_vars
    /\ [](\A t \in Threads : lock_ = t <=> threads[t].pc = "locked")
    /\ []((fault = "none" /\ \E t \in Threads : threads[t].pc # "idle") =>
             ENABLED (\E t \in Threads : Lock(t) \/ Step(t) \/ Return(t)))
    /\ \A t \in Threads :
          (threads[t].pc # "idle") ~> (threads[t].pc = "idle" \/ fault # "none")

\* the threads have made all their calls, each of them some, every call has
\* returned and lock_ is free
AllCallsReturned ==
    /\ fault = "none"
    /\ CallsMade = MaxOps
    /\ \A t \in Threads : threads[t].calls > 0 /\ threads[t].pc = "idle"
    /\ lock_ = 0
    /\ \E t \in Threads : threads[t].held = 2

====
